---- MODULE Spec2Model ----
(***************************************************************************)
(* Model of the multi-source ingestion and alerting worker (Worker.py):    *)
(* the relational store and its upsert helpers, the five adapter tasks,    *)
(* the alert evaluator, the notification sink and the orchestrator loop.   *)
(*                                                                         *)
(* Conventions.                                                            *)
(*  - A table is the sequence of its rows in insertion order (the SERIAL    *)
(*    id of a row is its position).                                        *)
(*  - A nullable value (Python None / SQL NULL) is a sequence of length    *)
(*    0 or 1: None == <<>>, Some(v) == <<v>>.                              *)
(*  - A text that the code parses is the sequence of its lexical tokens.   *)
(*  - A date string of the flow source is the sequence of its characters,  *)
(*    so that Python's string order (sorted) is the lexicographic order.   *)
(***************************************************************************)
EXTENDS Integers, Sequences, FiniteSets, TLC

VARIABLES
    db,        \* the persistent store: one field per table, plus the schema flag
    hist,      \* history of the committed store calls (first and last write per key)
    ncalls,    \* number of store-helper calls issued so far (store specification)
    etf,       \* what the latest execution of task_etf_flows did (None before the first)
    runs,      \* number of worker runs started so far
    pc,        \* where the worker process is: start, schema, tasks, summary, print, exit
    env,       \* the environment variables the process was started with
    results,   \* the orchestrator's results list
    output,    \* what the process gave back: the summary printed and the exit status
    twin,      \* the same run with every raising task replaced by one that finds its source down
    call,      \* the latest task call of the task specification: its responses and outcome
    writers,   \* concurrent callers: the statements each has left, and the commit order
    seen       \* history of the run: schema statements, tasks invoked, tasks that raised,
               \* requests each task sent to its source, whether it changed the store, summary write

workerVars == <<pc, env, results, output, twin, seen, call, writers>>
vars == <<db, hist, ncalls, etf, runs, pc, env, results, output, twin, seen, call, writers>>

----------------------------------------------------------------------------
(* Nullable values *)

None == <<>>
Some(v) == <<v>>
IsNone(o) == o = <<>>

\* The element of a singleton set.  An intermediate value v of a computation
\* is named by The({ body : v \in {expression} }), which computes it once.
The(S) == CHOOSE x \in S : TRUE

----------------------------------------------------------------------------
(* The worker process before it starts *)

NoEnv == [DATABASE_URL |-> FALSE, FLOW_ALERT_MUSD |-> None, WEBHOOK_URL |-> FALSE,
          FINNHUB_KEY |-> FALSE, FRED_KEY |-> FALSE]
NoOutput == [stdout |-> None, code |-> None]
NoObs == [schema_statements |-> 0, schema_ready |-> FALSE, invoked |-> <<>>,
          raised |-> {}, requests |-> <<>>, changed |-> <<>>,
          summary_writes |-> 0, summary_failed |-> FALSE, committed |-> None]
NoTwin == [db |-> None, results |-> <<>>, raised |-> FALSE]
Idle ==
    /\ pc = "idle"
    /\ env = NoEnv
    /\ results = <<>>
    /\ output = NoOutput
    /\ twin = NoTwin
    /\ seen = NoObs
    /\ call = None
    /\ writers = None

----------------------------------------------------------------------------
(* Bounds of the model *)

\* Longest sequence of store-helper calls explored by the store specification.
MaxCalls == 4
\* Number of successive worker runs (the external scheduler's invocations).
MaxRuns == 2

----------------------------------------------------------------------------
(* The store: schema (Worker.py ensure_schema) *)

EmptyTables ==
    [ready        |-> FALSE,
     market_bars  |-> <<>>,
     etf_flows    |-> <<>>,
     sec_filings  |-> <<>>,
     fred_series  |-> <<>>,
     news         |-> <<>>,
     alerts       |-> <<>>]

\* CREATE TABLE IF NOT EXISTS ... ; CREATE [UNIQUE] INDEX IF NOT EXISTS ... :
\* existing tables and their rows are left as they are.
ensure_schema(d) == [d EXCEPT !.ready = TRUE]

\* A UNIQUE index compares key columns with SQL equality: two NULLs are
\* never equal, so a key with a NULL column conflicts with no row.
SqlEq(a, b) == ~IsNone(a) /\ ~IsNone(b) /\ a = b

----------------------------------------------------------------------------
(* The store helpers: the SQL statement each one executes *)

\* Variant of upsert_bar whose conflict clause rewrites the whole bar
\* (DO UPDATE SET open = ..., high = ..., low = ..., close = ...).
upsert_bar_rewrites_ohlc(t, symbol, ts, price) ==
    LET hit == {i \in 1..Len(t) : LET r == t[i] IN r.symbol = symbol /\ r.ts = ts}
        bar == [symbol |-> symbol, ts |-> ts, open |-> price, high |-> price,
                low |-> price, close |-> price, volume |-> 0]
    IN  IF hit # {}
        THEN [i \in 1..Len(t) |-> IF i \in hit THEN bar ELSE t[i]]
        ELSE Append(t, bar)

\* INSERT INTO market_bars ... VALUES (symbol, ts, price, price, price, price, 0)
\* ON CONFLICT (symbol, ts) DO UPDATE SET close = EXCLUDED.close
upsert_bar(t, symbol, ts, price) ==
    LET hit == {i \in 1..Len(t) : LET r == t[i] IN r.symbol = symbol /\ r.ts = ts}
    IN  IF hit # {}
        THEN [i \in 1..Len(t) |-> IF i \in hit THEN [t[i] EXCEPT !.close = price] ELSE t[i]]
        ELSE Append(t, [symbol |-> symbol, ts |-> ts, open |-> price, high |-> price,
                        low |-> price, close |-> price, volume |-> 0])

\* Variant of upsert_flow with ON CONFLICT (date, fund) DO NOTHING.
upsert_flow_keeps_first(t, date_s, fund, flow_musd) ==
    IF {i \in 1..Len(t) : LET r == t[i] IN r.date = date_s /\ r.fund = fund} # {}
    THEN t
    ELSE Append(t, [date |-> date_s, fund |-> fund, flow_musd |-> flow_musd])

\* INSERT INTO etf_flows ... ON CONFLICT (date, fund) DO UPDATE SET flow_musd = EXCLUDED.flow_musd
upsert_flow(t, date_s, fund, flow_musd) ==
    LET hit == {i \in 1..Len(t) : LET r == t[i] IN r.date = date_s /\ r.fund = fund}
    IN  IF hit # {}
        THEN [i \in 1..Len(t) |-> IF i \in hit THEN [t[i] EXCEPT !.flow_musd = flow_musd] ELSE t[i]]
        ELSE Append(t, [date |-> date_s, fund |-> fund, flow_musd |-> flow_musd])

\* datetime.fromisoformat(filed_at_iso.replace("Z", "+00:00")) inside try/except:
\* the text is a token sequence <<wall-clock time, offset>>; every other shape
\* fails to parse.  None and the empty text are falsy and skip the parse.
IsoWallTimes == {"2024-01-05T10:00:00", "2024-01-06T10:00:00"}
ReplaceZ(text) == [i \in 1..Len(text) |-> IF text[i] = "Z" THEN "+00:00" ELSE text[i]]
ParseFiledAt(filed_at_iso) ==
    IF IsNone(filed_at_iso) \/ filed_at_iso[1] = <<>>
    THEN None
    ELSE LET s == ReplaceZ(filed_at_iso[1])
         IN  IF Len(s) = 2 /\ s[1] \in IsoWallTimes /\ s[2] = "+00:00"
             THEN Some(s[1])
             ELSE None

\* Variant of insert_filing with ON CONFLICT (...) DO UPDATE SET link = EXCLUDED.link.
insert_filing_updates_link(t, filed_at_iso, form, company, title, link) ==
    LET ts  == ParseFiledAt(filed_at_iso)
        hit == {i \in 1..Len(t) : LET r == t[i] IN /\ SqlEq(r.filed_at, ts)
                                       /\ SqlEq(r.form, form)
                                       /\ SqlEq(r.company, company)
                                       /\ SqlEq(r.title, title)}
    IN  IF hit # {}
        THEN [i \in 1..Len(t) |-> IF i \in hit THEN [t[i] EXCEPT !.link = link] ELSE t[i]]
        ELSE Append(t, [filed_at |-> ts, form |-> form, company |-> company,
                        title |-> title, link |-> link])

\* INSERT INTO sec_filings ... ON CONFLICT (filed_at, form, company, title) DO NOTHING
insert_filing(t, filed_at_iso, form, company, title, link) ==
    LET ts  == ParseFiledAt(filed_at_iso)
        hit == {i \in 1..Len(t) : LET r == t[i] IN /\ SqlEq(r.filed_at, ts)
                                       /\ SqlEq(r.form, form)
                                       /\ SqlEq(r.company, company)
                                       /\ SqlEq(r.title, title)}
    IN  IF hit # {}
        THEN t
        ELSE Append(t, [filed_at |-> ts, form |-> form, company |-> company,
                        title |-> title, link |-> link])

\* INSERT INTO fred_series ... ON CONFLICT (series_id, date) DO UPDATE SET value = EXCLUDED.value
upsert_fred(t, series_id, date_str, value) ==
    LET hit == {i \in 1..Len(t) : LET r == t[i] IN r.series_id = series_id /\ r.date = date_str}
    IN  IF hit # {}
        THEN [i \in 1..Len(t) |-> IF i \in hit THEN [t[i] EXCEPT !.value = value] ELSE t[i]]
        ELSE Append(t, [series_id |-> series_id, date |-> date_str, value |-> value])

\* INSERT INTO news(source, symbol, dt, headline, url): no unique index, always appends.
insert_news(t, source, symbol, dt, headline, url) ==
    Append(t, [source |-> source, symbol |-> symbol, dt |-> dt,
               headline |-> headline, url |-> url])

\* INSERT INTO alerts(kind, payload): append-only.
log_alert(t, kind, payload) == Append(t, [kind |-> kind, payload |-> payload])

----------------------------------------------------------------------------
(* A helper call as Python runs it: `with conn() as cn, cn.cursor() as cur:    *)
(* cur.execute(...); cn.commit()`.  psycopg2.connect raises when the store is  *)
(* unreachable (up = FALSE), and the statement raises when the schema is       *)
(* missing; either way nothing is committed and the exception reaches the      *)
(* caller.  `field` is the table the statement writes, `t2` its new contents.  *)
conn(d, up, field, t2) ==
    IF up /\ d.ready
    THEN [raised |-> FALSE, db |-> [d EXCEPT ![field] = t2]]
    ELSE [raised |-> TRUE,  db |-> d]

----------------------------------------------------------------------------
(* Texts of the scraped pages and JSON payloads, as sequences of characters *)

\* The characters the model's texts use, in code-point order.
Alphabet ==
    <<" ", "$", "+", ",", "-", ".", "/",
      "0", "1", "2", "3", "4", "5", "6", "7", "8", "9",
      "A", "B", "C", "D", "E", "F", "G", "H", "I", "J", "K", "L", "M",
      "N", "O", "P", "Q", "R", "S", "T", "U", "V", "W", "X", "Y", "Z",
      "a", "b", "c", "d", "e", "f", "g", "h", "i", "j", "k", "l", "m",
      "n", "o", "p", "q", "r", "s", "t", "u", "v", "w", "x", "y", "z">>

Chars == {Alphabet[i] : i \in 1..Len(Alphabet)}
CodePoint == [c \in Chars |-> CHOOSE i \in 1..Len(Alphabet) : Alphabet[i] = c]
Code(c) == CodePoint[c]
Digits == {"0", "1", "2", "3", "4", "5", "6", "7", "8", "9"}
DigitVal(c) == Code(c) - Code("0")

\* str.lower()
LowerOf == [c \in Chars |-> IF Code(c) >= Code("A") /\ Code(c) <= Code("Z")
                            THEN Alphabet[Code(c) - Code("A") + Code("a")] ELSE c]
Lower(s) == [i \in 1..Len(s) |-> LowerOf[s[i]]]

\* `sub in s`
Contains(s, sub) ==
    \E i \in 0..(Len(s) - Len(sub)) : \A j \in 1..Len(sub) : s[i + j] = sub[j]

\* s.replace(c, "") for every character c of the set cs
RECURSIVE Remove(_, _)
Remove(s, cs) ==
    IF s = <<>> THEN <<>>
    ELSE IF Head(s) \in cs THEN Remove(Tail(s), cs)
    ELSE <<Head(s)>> \o Remove(Tail(s), cs)

\* Python's order on str: lexicographic by code point, a proper prefix first.
RECURSIVE StrLess(_, _)
StrLess(a, b) ==
    IF b = <<>> THEN FALSE
    ELSE IF a = <<>> THEN TRUE
    ELSE IF Head(a) # Head(b) THEN Code(Head(a)) < Code(Head(b))
    ELSE StrLess(Tail(a), Tail(b))

\* sorted(dates)[-1]
StrMax(S) == CHOOSE x \in S : \A y \in S : y = x \/ StrLess(y, x)

RECURSIVE DigitsValue(_)
DigitsValue(s) == IF s = <<>> THEN 0
                  ELSE 10 * DigitsValue(SubSeq(s, 1, Len(s) - 1)) + DigitVal(s[Len(s)])

\* float(text) for the decimal literals [sign] digits [. digits]; a number is
\* kept in hundredths (the store's NUMERIC is exact), so "12.5" is 1250.
\* Any other text raises ValueError: the result is None.
Float(s) ==
    LET signed == s # <<>> /\ s[1] \in {"-", "+"}
        body   == IF signed THEN Tail(s) ELSE s
        dots   == {i \in 1..Len(body) : body[i] = "."}
        ip     == IF dots = {} THEN body ELSE SubSeq(body, 1, (CHOOSE i \in dots : TRUE) - 1)
        fp     == IF dots = {} THEN <<>>
                  ELSE SubSeq(body, (CHOOSE i \in dots : TRUE) + 1, Len(body))
        wellformed == /\ Cardinality(dots) <= 1
                      /\ \A i \in 1..Len(body) : body[i] \in Digits \cup {"."}
                      /\ Len(ip) + Len(fp) >= 1
                      /\ Len(fp) <= 2
        frac   == IF Len(fp) = 0 THEN 0
                  ELSE IF Len(fp) = 1 THEN 10 * DigitsValue(fp) ELSE DigitsValue(fp)
        mag    == 100 * DigitsValue(ip) + frac
    IN  IF ~wellformed THEN None
        ELSE IF signed /\ s[1] = "-" THEN Some(0 - mag) ELSE Some(mag)

----------------------------------------------------------------------------
(* Environment knobs (Worker.py, ENV / KNOBS) *)

\* FLOW_ALERT_MUSD = float(os.getenv("FLOW_ALERT_MUSD", "500")), in millions.
FLOW_ALERT_MUSD == 500
\* Amounts are kept in hundredths of a million.
Hundredths(musd) == 100 * musd

----------------------------------------------------------------------------
(* Store calls inside a task.  A task threads st = [db, n, raised]: the     *)
(* store, the number of conn() calls made so far and whether an exception  *)
(* is propagating.  `fault` is the ordinal of the conn() call at which the  *)
(* store is unreachable (0: the store stays reachable).                     *)

Begin(d) == [db |-> d, n |-> 0, raised |-> FALSE]

StoreStep(st, fault, field, t2) ==
    IF st.raised THEN st
    ELSE LET r == conn(st.db, st.n + 1 # fault, field, t2)
         IN  [db |-> r.db, n |-> st.n + 1, raised |-> r.raised]

----------------------------------------------------------------------------
(* Notification sink *)

DeliveryResults == {"2xx", "non2xx", "timeout", "connect_error"}
\* httpx.post raises for these; a non-2xx response is returned, not raised.
DeliveryRaises(delivery) == delivery \in {"timeout", "connect_error"}

\* Variant of webhook without the try/except around httpx.post.
webhook_unguarded(url, delivery) ==
    IF ~url THEN [posts |-> 0, raised |-> FALSE]
    ELSE [posts |-> 1, raised |-> DeliveryRaises(delivery)]

\* webhook(text): no-op without WEBHOOK_URL; otherwise one httpx.post whose
\* exception, if any, is caught and dropped.  posts counts delivery attempts.
webhook(url, delivery) ==
    IF ~url THEN [posts |-> 0, raised |-> FALSE]
    ELSE [posts |-> 1,
          raised |-> IF DeliveryRaises(delivery) THEN FALSE ELSE FALSE]

----------------------------------------------------------------------------
(* ETF-flow adapter *)

FlowDecoration == {"$", "m", ","}
HeaderWord == <<"f", "u", "n", "d">>

\* The loop body over one <tr> (cols: the stripped texts of its td/th cells):
\* the row it appends, or None when the row is skipped.
FlowRowOf(cols) ==
    IF Len(cols) < 3 \/ Contains(Lower(cols[1]), HeaderWord) THEN None
    ELSE LET flow == Float(Remove(cols[3], FlowDecoration))
         IN  IF IsNone(flow) THEN None
             ELSE Some([fund |-> cols[1], date |-> cols[2], flow_musd |-> flow[1]])

\* Variant of the row loop that stops at the first row whose amount does
\* not parse (the try block around the loop instead of inside it).
RECURSIVE FlowRowsOf_stops_at_unparsable(_)
FlowRowsOf_stops_at_unparsable(trs) ==
    IF trs = <<>> THEN <<>>
    ELSE IF /\ Len(Head(trs)) >= 3 /\ ~Contains(Lower(Head(trs)[1]), HeaderWord)
            /\ IsNone(FlowRowOf(Head(trs)))
    THEN <<>>
    ELSE FlowRowOf(Head(trs)) \o FlowRowsOf_stops_at_unparsable(Tail(trs))

RECURSIVE FlowRowsOf(_)
FlowRowsOf(trs) ==
    IF trs = <<>> THEN <<>>
    ELSE FlowRowOf(Head(trs)) \o FlowRowsOf(Tail(trs))

\* The frame pd.read_html extracts: the first one with at least 3 columns.
FirstWide(frames) ==
    LET wide == {i \in 1..Len(frames) : frames[i].ncols >= 3}
    IN  IF wide = {} THEN None
        ELSE Some(frames[CHOOSE i \in wide : \A j \in wide : i <= j])

\* Variant of farside_btc_flows that also tries the generic extraction when
\* the table it found gave no row.
farside_btc_flows_always_falls_back(resp) ==
    IF resp.kind = "exception" THEN <<>>
    ELSE IF resp.status # 200 \/ IsNone(resp.body) THEN <<>>
    ELSE LET page == resp.body[1]
         IN  IF page.tables # <<>> /\ FlowRowsOf(page.tables[1]) # <<>>
             THEN FlowRowsOf(page.tables[1])
             ELSE IF IsNone(page.frames) THEN <<>>
             ELSE LET df == FirstWide(page.frames[1])
                  IN  IF IsNone(df) THEN <<>>
                      ELSE FlowRowsOf([i \in 1..Len(df[1].rows) |->
                                          SubSeq(df[1].rows[i], 1, 3)])

\* farside_btc_flows(): resp is what httpx.get does (raises, or returns a
\* status and a body).  A body is [tables, frames]: the <table> elements
\* BeautifulSoup finds, and what pd.read_html returns (None: it raises, as it
\* does when it finds no table).
farside_btc_flows(resp) ==
    IF resp.kind = "exception" THEN <<>>
    ELSE IF resp.status # 200 \/ IsNone(resp.body) THEN <<>>
    ELSE LET page == resp.body[1]
         IN  IF page.tables # <<>> THEN FlowRowsOf(page.tables[1])
             ELSE IF IsNone(page.frames) THEN <<>>
             ELSE LET df == FirstWide(page.frames[1])
                  IN  IF IsNone(df) THEN <<>>
                      ELSE FlowRowsOf([i \in 1..Len(df[1].rows) |->
                                          SubSeq(df[1].rows[i], 1, 3)])

----------------------------------------------------------------------------
(* The pages the flow source serves in the model *)

IBIT == <<"I", "B", "I", "T">>
ARKB == <<"A", "R", "K", "B">>
\* Day labels as the source prints them: "9" sorts after "10" as a string.
Day9  == <<"9">>
Day10 == <<"1", "0">>
Usd250    == <<"$", "2", "5", "0", ".", "0", "m">>
UsdNeg500 == <<"-", "$", "5", "0", "0", ".", "0", "m">>
Usd49999  == <<"$", "4", "9", "9", ".", "9", "9", "m">>
NotANumber == <<"n", "/", "a">>
HeaderTr == << <<"F", "u", "n", "d">>, <<"D", "a", "t", "e">>, <<"F", "l", "o", "w">> >>

FlowTrs ==
    { <<IBIT, Day9, Usd250>>, <<ARKB, Day9, Usd250>>, <<IBIT, Day9, Usd49999>>,
      <<ARKB, Day10, UsdNeg500>> }

\* A page with one table: at most two data rows, or a data row after a
\* header row or after a row whose amount is not a number.
FlowTables == {<<>>} \cup {<<a>> : a \in FlowTrs} \cup {<<a, b>> : a, b \in FlowTrs}
              \cup { <<HeaderTr, <<IBIT, Day9, Usd250>> >>,
                     << <<ARKB, Day9, NotANumber>>, <<ARKB, Day10, UsdNeg500>> >> }

Page(trs) == [kind |-> "response", status |-> 200,
              body |-> Some([tables |-> <<trs>>, frames |-> None])]

FlowResponses ==
    {Page(trs) : trs \in FlowTables}
    \cup { [kind |-> "exception"],
           [kind |-> "response", status |-> 503, body |-> Some([tables |-> <<>>, frames |-> None])],
           [kind |-> "response", status |-> 200, body |-> None],
           [kind |-> "response", status |-> 200,
            body |-> Some([tables |-> <<>>, frames |-> None])],
           [kind |-> "response", status |-> 200,
            body |-> Some([tables |-> <<>>,
                           frames |-> Some(<< [ncols |-> 2, rows |-> <<>>],
                                               [ncols |-> 4,
                                                rows |-> << <<IBIT, Day9, Usd250, <<"x">> >> >>] >>)])] }

\* Pages that exercise the row loop and the order of the two parsers.
Usd1234   == <<"$", "1", ",", "2", "3", "4", ".", "5", "m">>
UsdNeg12  == <<"-", "$", "1", "2", ".", "0", "m">>
TotalFunds == <<"T", "o", "t", "a", "l", " ", "F", "U", "N", "D", "S">>
\* a data row, an amount that is no number, a header-like row, a short row,
\* a row with a fourth cell
RichPage ==
    Page(<< <<IBIT, Day9, Usd1234>>, <<ARKB, Day9, NotANumber>>, <<TotalFunds, Day9, Usd250>>,
            <<ARKB, Day10>>, <<ARKB, Day10, UsdNeg12, Usd250>> >>)
\* the first <table> is a two-column layout table, the flows are in the second
LayoutPage ==
    [kind |-> "response", status |-> 200,
     body |-> Some([tables |-> << << <<IBIT, Day9>> >>, << <<IBIT, Day9, Usd250>> >> >>,
                    frames |-> Some(<< [ncols |-> 2, rows |-> << <<IBIT, Day9>> >>],
                                        [ncols |-> 3, rows |-> << <<IBIT, Day9, Usd250>> >>] >>)])]
ParserPages == {RichPage, LayoutPage}

\* farside_btc_flows tabulated over the model's responses (evaluated once).
FarsideRows == [resp \in FlowResponses \cup ParserPages |-> farside_btc_flows(resp)]

RECURSIVE UpsertFlows(_, _, _)
UpsertFlows(st0, rows, fault) ==
    The({ IF rows = <<>> \/ st.raised THEN st
          ELSE UpsertFlows(StoreStep(st, fault, "etf_flows",
                                     upsert_flow(st.db.etf_flows, rows[1].date,
                                                 rows[1].fund, rows[1].flow_musd)),
                           Tail(rows), fault)
          : st \in {st0} })

RECURSIVE SumSeq(_)
SumSeq(q) == IF q = <<>> THEN 0 ELSE Head(q) + SumSeq(Tail(q))

\* Variant of the sum query that adds up only the rows fetched in this run.
sum_flows_of_run(t, rows, latest) ==
    SumSeq([i \in 1..Len(rows) |-> IF rows[i].date = latest THEN rows[i].flow_musd ELSE 0])

\* SELECT SUM(flow_musd) total FROM etf_flows WHERE date = latest
\* (rows: the rows fetched in this run, which the query does not use).
sum_flows(t, rows, latest) ==
    SumSeq([i \in 1..Len(t) |-> IF t[i].date = latest THEN t[i].flow_musd ELSE 0])

Abs(x) == IF x < 0 THEN 0 - x ELSE x

\* Variant of the threshold test with a strict comparison.
crosses_strictly(net) == Abs(net) > Hundredths(FLOW_ALERT_MUSD)

\* abs(net) >= FLOW_ALERT_MUSD
crosses(net) == Abs(net) >= Hundredths(FLOW_ALERT_MUSD)

\* Variant of the alert write that skips a crossing already on record.
log_flow_alert_once(t, payload) ==
    IF \E i \in 1..Len(t) : t[i].kind = "etf_net_flow" /\ t[i].payload = payload
    THEN t ELSE log_alert(t, "etf_net_flow", payload)

\* log_alert("etf_net_flow", {"date": latest, "net_musd": net})
log_flow_alert(t, payload) == log_alert(t, "etf_net_flow", payload)

\* task_etf_flows().  The outcome: the store, whether an exception escapes,
\* the (ok, message) returned otherwise, and what the task did on the way:
\* rows recovered, sum queries issued, the net it compared, webhook calls,
\* delivery attempts, whether webhook raised, and alert records appended.
task_etf_flows(d, resp, fault, url, delivery) ==
    LET rows   == FarsideRows[resp]
        dates  == {rows[i].date : i \in 1..Len(rows)}
        latest == StrMax(dates)
        NoHook == [posts |-> 0, raised |-> FALSE]
        \* for r in rows: upsert_flow(...); dates.add(...)
        Upserted == UpsertFlows(Begin(d), rows, fault)
        \* if dates: the sum query, on a connection of its own
        Queried(st1) == IF dates = {} THEN st1
                        ELSE StoreStep(st1, fault, "etf_flows", st1.db.etf_flows)
        Net(st2) == IF dates = {} \/ st2.raised THEN None
                    ELSE Some(sum_flows(st2.db.etf_flows, rows, latest))
        \* if abs(net) >= FLOW_ALERT_MUSD: webhook(...); log_alert(...)
        Hook(net) == IF ~IsNone(net) /\ crosses(net[1]) THEN webhook(url, delivery) ELSE NoHook
        Logged(st2, net, hook) ==
            IF IsNone(net) \/ ~crosses(net[1]) THEN st2
            ELSE IF hook.raised THEN [st2 EXCEPT !.raised = TRUE]
            ELSE StoreStep(st2, fault, "alerts",
                           log_flow_alert(st2.db.alerts,
                                          [date |-> latest, net_musd |-> net[1]]))
        Outcome(st1, net, hook, st3) ==
            [db      |-> st3.db,
             raised  |-> st3.raised,
             ret     |-> IF st3.raised THEN <<>>
                         ELSE <<TRUE, <<"etf rows upserted", Len(rows)>>>>,
             rows    |-> rows,
             requests |-> 1,
             queries |-> IF dates # {} /\ ~st1.raised THEN 1 ELSE 0,
             net     |-> net,
             hooks   |-> IF ~IsNone(net) /\ crosses(net[1]) THEN 1 ELSE 0,
             posts   |-> hook.posts,
             hook_raised |-> hook.raised,
             logged  |-> Len(st3.db.alerts) - Len(d.alerts)]
    IN  The({ The({ The({ The({ The({ Outcome(st1, net, hook, st3)
                                      : st3 \in {Logged(st2, net, hook)} })
                                : hook \in {Hook(net)} })
                          : net \in {Net(st2)} })
                    : st2 \in {Queried(st1)} })
              : st1 \in {Upserted} })

----------------------------------------------------------------------------
(* Price adapter (CoinGecko) *)

\* datetime.utcfromtimestamp(t): a time of second t; t_ms / 1000.0 keeps the
\* milliseconds of a Unix time in milliseconds.
SecToTs(t) == [s |-> t, ms |-> 0]
MsToTs(t_ms) == [s |-> t_ms \div 1000, ms |-> t_ms % 1000]

\* The text of an exception is not modelled: an error message is the words
\* that precede it.
\* for t_ms, px in prices: ts = ...; upsert_bar(label, ts, float(px)).  A point
\* whose time or price is null raises TypeError before the write.
RECURSIVE UpsertPrices(_, _, _, _)
UpsertPrices(st0, label, prices, fault) ==
    The({ IF prices = <<>> \/ st.raised THEN st
          ELSE IF IsNone(prices[1].t_ms) \/ IsNone(prices[1].px)
          THEN [st EXCEPT !.raised = TRUE]
          ELSE UpsertPrices(StoreStep(st, fault, "market_bars",
                                upsert_bar(st.db.market_bars, label,
                                           MsToTs(prices[1].t_ms[1]), prices[1].px[1])),
                            label, Tail(prices), fault)
          : st \in {st0} })

\* Variant of the request that is sent a second time when it failed.
coingecko_get_attempts_retry(resp) == IF resp.kind = "exception" THEN 2 ELSE 1

\* r = requests.get(url, ..., timeout=HTTP_TIMEOUT): one call, in no loop;
\* the number of times the request is sent, whatever it gives.
coingecko_get_attempts(resp) == 1

\* coingecko_prices(coin): the whole body is one try block, so a failed
\* request, a malformed point and a failed write all end the loop and return
\* (False, ...); the bars written before stay.  resp is what requests.get and
\* raise_for_status do: raise, or give the document's "prices" list.
coingecko_prices(d, coin, resp, fault) ==
    LET label == IF coin = "bitcoin" THEN "BTC" ELSE "ETH"
        error == <<FALSE, <<"coingecko", coin, "error">>>>
    IN  IF resp.kind = "exception" THEN [db |-> d, ret |-> error]
        ELSE The({ [db  |-> st.db,
                    ret |-> IF st.raised THEN error ELSE <<TRUE, <<"coingecko", coin, "ok">>>>]
                   : st \in {UpsertPrices(Begin(d), label, resp.prices, fault)} })

\* task_crypto(): both coins are fetched whatever the first one did.
task_crypto(d, resp1, resp2, fault1, fault2) ==
    The({ The({ [db     |-> r2.db,
                 raised |-> FALSE,
                 ret    |-> <<r1.ret[1] /\ r2.ret[1], <<r1.ret[2], r2.ret[2]>>>>,
                 requests |-> coingecko_get_attempts(resp1) + coingecko_get_attempts(resp2)]
                : r2 \in {coingecko_prices(r1.db, "ethereum", resp2, fault2)} })
          : r1 \in {coingecko_prices(d, "bitcoin", resp1, fault1)} })

----------------------------------------------------------------------------
(* Filing adapter (SEC full-text search) *)

\* Python truthiness of an optional text and of an optional number.
TruthyText(o) == ~IsNone(o) /\ o[1] # ""
TruthyNum(o) == ~IsNone(o) /\ o[1] # 0

\* sec_search(): [] on an exception and on a status other than 200; otherwise
\* one item per hit.  A hit is its _source document (absent keys are None,
\* displayNames is a list of names, empty when absent).
sec_search(resp) ==
    IF resp.kind = "exception" THEN <<>>
    ELSE IF resp.status # 200 THEN <<>>
    ELSE [i \in 1..Len(resp.hits) |->
            LET s == resp.hits[i]
            IN  [filedAt |-> s.filedAt,
                 form    |-> s.formType,
                 company |-> IF s.displayNames # <<>> THEN Some(s.displayNames[1])
                             ELSE s.companyName,
                 title   |-> IF TruthyText(s.displayTitle) THEN s.displayTitle
                             ELSE s.documentDescription,
                 link    |-> IF TruthyText(s.link) THEN Some(<<"ixviewer", s.link[1]>>)
                             ELSE None]]

RECURSIVE InsertFilings(_, _, _)
InsertFilings(st0, items, fault) ==
    The({ IF items = <<>> \/ st.raised THEN st
          ELSE InsertFilings(StoreStep(st, fault, "sec_filings",
                                 insert_filing(st.db.sec_filings, items[1].filedAt,
                                               items[1].form, items[1].company,
                                               items[1].title, items[1].link)),
                             Tail(items), fault)
          : st \in {st0} })

\* task_sec(): a failed write leaves the task through the exception.
task_sec(d, resp, fault) ==
    The({ [db     |-> st.db,
           raised |-> st.raised,
           ret    |-> IF st.raised THEN <<>>
                      ELSE <<TRUE, <<"sec filings ingested", Len(sec_search(resp))>>>>,
           requests |-> 1]
          : st \in {InsertFilings(Begin(d), sec_search(resp), fault)} })

----------------------------------------------------------------------------
(* Equity adapter (Finnhub) *)

\* for i in r.json()[:10]
NEWS_LIMIT == 10
FirstN(s, n) == SubSeq(s, 1, IF Len(s) < n THEN Len(s) ELSE n)

\* finnhub_candles(): None without a key, on an exception, when the status
\* field is not "ok", and when the two columns differ in length (DataFrame
\* raises); otherwise the frame of (ts, close) rows.
finnhub_candles(key, resp) ==
    IF ~key \/ resp.kind = "exception" THEN None
    ELSE IF resp.s # "ok" \/ Len(resp.t) # Len(resp.c) THEN None
    ELSE Some([i \in 1..Len(resp.t) |-> [ts |-> SecToTs(resp.t[i]), close |-> resp.c[i]]])

\* finnhub_quote(): None without a key, on an exception or a bad status.
finnhub_quote(key, resp) ==
    IF ~key \/ resp.kind = "exception" \/ ~resp.ok THEN None
    ELSE Some([c |-> resp.c, pc |-> resp.pc, t |-> resp.t])

\* finnhub_news(): [] without a key, on an exception or a bad status; at most
\* NEWS_LIMIT items, dt null when the item has no (or a zero) datetime.
finnhub_news(key, sym, resp) ==
    IF ~key \/ resp.kind = "exception" \/ ~resp.ok THEN <<>>
    ELSE LET items == FirstN(resp.items, NEWS_LIMIT)
         IN  [i \in 1..Len(items) |->
                [symbol   |-> sym,
                 dt       |-> IF TruthyNum(items[i].datetime)
                              THEN Some(SecToTs(items[i].datetime[1])) ELSE None,
                 headline |-> items[i].headline,
                 url      |-> items[i].url]]

RECURSIVE UpsertCandles(_, _, _, _)
UpsertCandles(st0, sym, rows, fault) ==
    The({ IF rows = <<>> \/ st.raised THEN st
          ELSE UpsertCandles(StoreStep(st, fault, "market_bars",
                                 upsert_bar(st.db.market_bars, sym, rows[1].ts, rows[1].close)),
                             sym, Tail(rows), fault)
          : st \in {st0} })

RECURSIVE InsertNewsItems(_, _, _, _)
InsertNewsItems(st0, sym, items, fault) ==
    The({ IF items = <<>> \/ st.raised THEN st
          ELSE InsertNewsItems(StoreStep(st, fault, "news",
                                   insert_news(st.db.news, "finnhub", sym, items[1].dt,
                                               items[1].headline, items[1].url)),
                               sym, Tail(items), fault)
          : st \in {st0} })

\* The bars of one ticker: the candles, or, without candles, the latest
\* quote when it has a non-zero price and time.  count is what the ticker
\* adds to total_rows.
\* sent counts the requests made: the helpers send none without a key.
TickerBars(st, sym, key, resp, fault) ==
    LET df == finnhub_candles(key, resp.candles)
        q  == finnhub_quote(key, resp.quote)
        one == IF key THEN 1 ELSE 0
    IN  IF st.raised THEN [st |-> st, count |-> 0, sent |-> 0]
        ELSE IF IsNone(df) \/ df[1] = <<>>
        THEN IF ~IsNone(q) /\ TruthyNum(q[1].c) /\ TruthyNum(q[1].t)
             THEN [st |-> StoreStep(st, fault, "market_bars",
                              upsert_bar(st.db.market_bars, sym, SecToTs(q[1].t[1]), q[1].c[1])),
                   count |-> 1, sent |-> 2 * one]
             ELSE [st |-> st, count |-> 0, sent |-> 2 * one]
        ELSE [st |-> UpsertCandles(st, sym, df[1], fault), count |-> Len(df[1]), sent |-> one]

\* for sym in tickers: bars, then news.  acc = [st, rows, news, requests].
RECURSIVE Tickers(_, _, _, _, _)
Tickers(acc0, syms, key, resps, fault) ==
    IF syms = <<>> \/ acc0.st.raised THEN acc0
    ELSE The({ The({ The({ Tickers([st   |-> st2,
                                    rows |-> acc.rows + bars.count,
                                    news |-> acc.news + Len(finnhub_news(key, syms[1], resps[1].news)),
                                    requests |-> acc.requests + bars.sent
                                                 + (IF key /\ ~bars.st.raised THEN 1 ELSE 0)],
                                   Tail(syms), key, Tail(resps), fault)
                           : st2 \in {InsertNewsItems(bars.st, syms[1],
                                          finnhub_news(key, syms[1], resps[1].news), fault)} })
                     : bars \in {TickerBars(acc.st, syms[1], key, resps[1], fault)} })
               : acc \in {acc0} })

\* [s.strip().upper() for s in FINNHUB_TICKERS if s.strip()]
FINNHUB_TICKERS == <<"SPY">>

\* task_finnhub(): skipped without FINNHUB_KEY; a failed write leaves the
\* task through the exception.
finnhub_tickers(d, key, resps, fault) ==
    The({ [db     |-> acc.st.db,
           raised |-> acc.st.raised,
           ret    |-> IF acc.st.raised THEN <<>>
                      ELSE <<TRUE, <<"finnhub bars", acc.rows, "news", acc.news>>>>,
           requests |-> acc.requests]
          : acc \in {Tickers([st |-> Begin(d), rows |-> 0, news |-> 0, requests |-> 0],
                             FINNHUB_TICKERS, key, resps, fault)} })

\* Variant of task_finnhub without the test of FINNHUB_KEY at its head.
task_finnhub_without_key_test(d, key, resps, fault) == finnhub_tickers(d, key, resps, fault)

task_finnhub(d, key, resps, fault) ==
    IF ~key THEN [db |-> d, raised |-> FALSE, ret |-> <<TRUE, <<"finnhub skipped (no key)">>>>,
                  requests |-> 0]
    ELSE finnhub_tickers(d, key, resps, fault)

----------------------------------------------------------------------------
(* Macro adapter (FRED) *)

\* for o in obs[-240:]
FRED_WINDOW == 240
LastN(s, n) == SubSeq(s, IF Len(s) < n THEN 1 ELSE Len(s) - n + 1, Len(s))

\* fred_fetch(): [] without a key, on an exception or a bad status; otherwise
\* the last FRED_WINDOW observations, value null when it is not a number
\* (the source prints "." for a missing value).
fred_fetch(key, series_id, resp) ==
    IF ~key \/ resp.kind = "exception" \/ ~resp.ok THEN <<>>
    ELSE LET window == LastN(resp.observations, FRED_WINDOW)
         IN  [i \in 1..Len(window) |->
                [series_id |-> series_id,
                 date      |-> window[i].date,
                 value     |-> IF IsNone(window[i].value) THEN None
                               ELSE Float(window[i].value[1])]]

\* upsert_fred inside the task: fred_series.date is NOT NULL, so a null date
\* makes the statement raise and nothing is committed.
RECURSIVE UpsertObservations(_, _, _)
UpsertObservations(st0, observations, fault) ==
    The({ IF observations = <<>> \/ st.raised THEN st
          ELSE UpsertObservations(
                   IF IsNone(observations[1].date)
                   THEN [db |-> st.db, n |-> st.n + 1, raised |-> TRUE]
                   ELSE StoreStep(st, fault, "fred_series",
                            upsert_fred(st.db.fred_series, observations[1].series_id,
                                        observations[1].date[1], observations[1].value)),
                   Tail(observations), fault)
          : st \in {st0} })

\* for sid in series: obs = fred_fetch(sid); for o in obs: upsert_fred(...); rows += 1
RECURSIVE Series(_, _, _, _, _)
Series(acc0, sids, key, resps, fault) ==
    IF sids = <<>> \/ acc0.st.raised THEN acc0
    ELSE The({ The({ Series([st |-> st2, rows |-> acc.rows + Len(fred_fetch(key, sids[1], resps[1])),
                             requests |-> acc.requests + (IF key THEN 1 ELSE 0)],
                            Tail(sids), key, Tail(resps), fault)
                     : st2 \in {UpsertObservations(acc.st, fred_fetch(key, sids[1], resps[1]), fault)} })
               : acc \in {acc0} })

\* [s.strip() for s in FRED_SERIES if s.strip()]
FRED_SERIES == <<"DGS2">>

\* task_fred(): skipped without FRED_KEY; a failed write leaves the task
\* through the exception.
task_fred(d, key, resps, fault) ==
    IF ~key THEN [db |-> d, raised |-> FALSE, ret |-> <<TRUE, <<"fred skipped (no key)">>>>,
                  requests |-> 0]
    ELSE The({ [db     |-> acc.st.db,
                raised |-> acc.st.raised,
                ret    |-> IF acc.st.raised THEN <<>>
                           ELSE <<TRUE, <<"fred rows upserted", acc.rows>>>>,
                requests |-> acc.requests]
               : acc \in {Series([st |-> Begin(d), rows |-> 0, requests |-> 0],
                                 FRED_SERIES, key, resps, fault)} })

----------------------------------------------------------------------------
(* Store specification: any sequence of helper calls against a created schema *)

StoreSymbols  == {"BTC", "ETH"}
StoreTs       == {1000, 2000}
StorePrices   == {100, 101}
StoreDates    == {<<"0", "5">>, <<"0", "6">>}
StoreFunds    == {"ARKB", "IBIT"}
StoreAmounts  == {10, -5}
StoreSeries   == {"DGS2", "DGS10"}
StoreFredDays == {"2024-01-01"}
StoreValues   == {None, Some(41)}
StoreFiledAt  == {None, Some(<<"garbage">>),
                  Some(<<"2024-01-05T10:00:00", "Z">>),
                  Some(<<"2024-01-05T10:00:00", "+00:00">>)}
StoreTitles   == {Some("10-K annual")}
StoreLinks    == {Some("link1"), Some("link2")}

NoHist == [bars |-> <<>>, flows |-> <<>>, filings |-> <<>>, fred |-> <<>>]

\* First and last value committed for key k, kept as a function key -> [first, last].
Remember(h, k, v) ==
    IF k \in DOMAIN h THEN [h EXCEPT ![k].last = v]
    ELSE (k :> [first |-> v, last |-> v]) @@ h

InitStore ==
    /\ db = ensure_schema(EmptyTables)
    /\ hist = NoHist
    /\ ncalls = 0
    /\ etf = None
    /\ runs = 0
    /\ Idle

CallUpsertBar ==
    \E symbol \in StoreSymbols, ts \in StoreTs, price \in StorePrices, up \in BOOLEAN :
        LET r == conn(db, up, "market_bars", upsert_bar(db.market_bars, symbol, ts, price))
        IN  /\ ncalls < MaxCalls
            /\ ncalls' = ncalls + 1
            /\ UNCHANGED <<etf, runs, workerVars>>
            /\ db' = r.db
            /\ hist' = IF r.raised THEN hist
                       ELSE [hist EXCEPT !.bars = Remember(@, <<symbol, ts>>, price)]

CallUpsertFlow ==
    \E date_s \in StoreDates, fund \in StoreFunds, amount \in StoreAmounts, up \in BOOLEAN :
        LET r == conn(db, up, "etf_flows", upsert_flow(db.etf_flows, date_s, fund, amount))
        IN  /\ ncalls < MaxCalls
            /\ ncalls' = ncalls + 1
            /\ UNCHANGED <<etf, runs, workerVars>>
            /\ db' = r.db
            /\ hist' = IF r.raised THEN hist
                       ELSE [hist EXCEPT !.flows = Remember(@, <<date_s, fund>>, amount)]

CallInsertFiling ==
    \E filed_at_iso \in StoreFiledAt, title \in StoreTitles, link \in StoreLinks, up \in BOOLEAN :
        LET form    == Some("8-K")
            company == Some("Acme Corp")
            r == conn(db, up, "sec_filings",
                      insert_filing(db.sec_filings, filed_at_iso, form, company, title, link))
        IN  /\ ncalls < MaxCalls
            /\ ncalls' = ncalls + 1
            /\ UNCHANGED <<etf, runs, workerVars>>
            /\ db' = r.db
            /\ hist' = IF r.raised THEN hist
                       ELSE [hist EXCEPT !.filings =
                               Remember(@, <<ParseFiledAt(filed_at_iso), form, company, title>>, link)]

CallUpsertFred ==
    \E series_id \in StoreSeries, date_str \in StoreFredDays, value \in StoreValues, up \in BOOLEAN :
        LET r == conn(db, up, "fred_series", upsert_fred(db.fred_series, series_id, date_str, value))
        IN  /\ ncalls < MaxCalls
            /\ ncalls' = ncalls + 1
            /\ UNCHANGED <<etf, runs, workerVars>>
            /\ db' = r.db
            /\ hist' = IF r.raised THEN hist
                       ELSE [hist EXCEPT !.fred = Remember(@, <<series_id, date_str>>, value)]

StoreKinds == {"etf_net_flow", "worker_summary"}

CallInsertNews ==
    \E up \in BOOLEAN :
        LET r == conn(db, up, "news",
                      insert_news(db.news, "finnhub", "SPY", Some(SecToTs(700)),
                                  Some("Fund inflows"), Some("n1")))
        IN  /\ ncalls < MaxCalls
            /\ ncalls' = ncalls + 1
            /\ db' = r.db
            /\ UNCHANGED <<hist, etf, runs, workerVars>>

CallLogAlert ==
    \E kind \in StoreKinds, up \in BOOLEAN :
        LET r == conn(db, up, "alerts", log_alert(db.alerts, kind, [results |-> <<>>]))
        IN  /\ ncalls < MaxCalls
            /\ ncalls' = ncalls + 1
            /\ db' = r.db
            /\ UNCHANGED <<hist, etf, runs, workerVars>>

NextStore ==
    \/ CallUpsertBar
    \/ CallUpsertFlow
    \/ CallInsertFiling
    \/ CallUpsertFred
    \/ CallInsertNews
    \/ CallLogAlert

SpecStore == InitStore /\ [][NextStore]_vars

----------------------------------------------------------------------------
(* Flow specification: successive runs of task_etf_flows against the store, *)
(* each with the page the source serves, the store's reachability and the   *)
(* webhook's delivery result chosen by the environment.                     *)

\* The store calls of one task execution at which the store may be down.
FlowFaults == 0..4

\* The observation kept of an execution: everything of the outcome but the
\* store, the configuration it ran under, the delivery result of the attempt
\* made (if any), whether the outcome (store, exception, return value) is the
\* one a delivered notification gives, and the number of executions so far
\* that compared a net at or beyond the threshold and returned normally.
Observe(prev, out, url, delivery, d, resp, fault) ==
    Some([raised |-> out.raised, ret |-> out.ret, rows |-> out.rows,
          queries |-> out.queries, net |-> out.net, hooks |-> out.hooks,
          posts |-> out.posts, hook_raised |-> out.hook_raised, logged |-> out.logged,
          url |-> url, delivery |-> IF out.posts > 0 THEN delivery ELSE "none",
          as_delivered |->
              IF delivery = "2xx" THEN TRUE
              ELSE \A ref \in {task_etf_flows(d, resp, fault, url, "2xx")} :
                       <<out.db, out.raised, out.ret>> = <<ref.db, ref.raised, ref.ret>>,
          crossings |->
              (IF IsNone(prev) THEN 0 ELSE prev[1].crossings)
              + (IF /\ ~out.raised /\ ~IsNone(out.net)
                    /\ (out.net[1] >= 100 * FLOW_ALERT_MUSD \/ out.net[1] <= -100 * FLOW_ALERT_MUSD)
                 THEN 1 ELSE 0)])

InitFlows ==
    /\ db = ensure_schema(EmptyTables)
    /\ hist = NoHist
    /\ ncalls = 0
    /\ etf = None
    /\ runs = 0
    /\ Idle

RunEtfFlows ==
    /\ runs < MaxRuns
    /\ \E resp \in FlowResponses, fault \in FlowFaults, url \in BOOLEAN :
        \E delivery \in IF url THEN DeliveryResults ELSE {"2xx"} :
        \E out \in {task_etf_flows(db, resp, fault, url, delivery)} :
            /\ runs' = runs + 1
            /\ db' = out.db
            /\ etf' = Observe(etf, out, url, delivery, db, resp, fault)
            /\ UNCHANGED <<hist, ncalls, workerVars>>

NextFlows == RunEtfFlows

SpecFlows == InitFlows /\ [][NextFlows]_vars

----------------------------------------------------------------------------
(* The worker process (Worker.py, module level and __main__) *)

\* float(os.getenv("FLOW_ALERT_MUSD", "500")): None when float raises.
flow_alert_knob(e) ==
    Float(IF IsNone(e.FLOW_ALERT_MUSD) THEN <<"5", "0", "0">> ELSE e.FLOW_ALERT_MUSD[1])

\* Variant of the module's start that does not test DATABASE_URL.
startup_without_url_check(e) ==
    IF IsNone(flow_alert_knob(e)) THEN "ValueError" ELSE "loaded"

\* The statements the interpreter runs before __main__: SystemExit when
\* DATABASE_URL is unset or empty, then the knobs, of which only the float
\* conversion can raise.
startup(e) ==
    IF ~e.DATABASE_URL THEN "SystemExit"
    ELSE IF IsNone(flow_alert_knob(e)) THEN "ValueError" ELSE "loaded"

\* for fn in (task_crypto, task_etf_flows, task_sec, task_finnhub, task_fred)
TaskOrder == <<"task_crypto", "task_etf_flows", "task_sec", "task_finnhub", "task_fred">>

\* Variant of the loop body that lets the exception of a task through.
run_task_reraises(name, res) ==
    [entry |-> IF res.raised THEN <<FALSE, <<name, "error">>>> ELSE res.ret,
     abort |-> res.raised]

\* try: ok, msg = fn(); results.append((ok, msg))
\* except Exception as e: results.append((False, f"{fn.__name__} error: {e}"))
run_task(name, res) ==
    [entry |-> IF res.raised THEN <<FALSE, <<name, "error">>>> ELSE res.ret,
     abort |-> FALSE]

\* summary = {"ran_at": ..., "duration_s": ..., "results": results}; the two
\* clock readings are not modelled.
Summary(rs) == [results |-> rs]

\* Variant of the summary write without the try/except around log_alert.
log_summary_unguarded(d, up, summary) ==
    LET r == conn(d, up, "alerts", log_alert(d.alerts, "worker_summary", summary))
    IN  [db |-> r.db, failed |-> r.raised, raised |-> r.raised]

\* try: log_alert("worker_summary", summary)
\* except Exception: pass
log_summary(d, up, summary) ==
    LET r == conn(d, up, "alerts", log_alert(d.alerts, "worker_summary", summary))
    IN  [db |-> r.db, failed |-> r.raised, raised |-> FALSE]

\* An uncaught exception and SystemExit("...") both end the process with status 1.
Died == [stdout |-> None, code |-> Some(1)]

----------------------------------------------------------------------------
(* Worker specification: one run of the process, from the interpreter       *)
(* loading the module to the exit, against a store that is new or holds the *)
(* rows of an earlier run.  The environment chooses the variables, what     *)
(* each source answers and the store call (if any) that fails.              *)

EnvFlowAlert == {None, Some(<<"5", "0", "0">>), Some(<<"h", "i", "g", "h">>)}
Environments ==
    [DATABASE_URL : BOOLEAN, FLOW_ALERT_MUSD : EnvFlowAlert, WEBHOOK_URL : BOOLEAN,
     FINNHUB_KEY : BOOLEAN, FRED_KEY : BOOLEAN]

Point1   == [t_ms |-> Some(60500), px |-> Some(42000)]
BadPoint == [t_ms |-> Some(120000), px |-> None]
CoinDown == [kind |-> "exception"]
CoinResponses ==
    {CoinDown, [kind |-> "json", prices |-> <<Point1>>],
     [kind |-> "json", prices |-> <<Point1, BadPoint>>]}
CryptoFaults == {0, 1}

FlowDown == [kind |-> "exception"]
WorkerFlowResponses ==
    {FlowDown, Page(<< <<IBIT, Day9, Usd250>> >>), Page(<< <<ARKB, Day10, UsdNeg500>> >>)}
WorkerFlowFaults == {0, 1, 3}
WorkerDeliveries(url) == IF url THEN {"2xx", "timeout"} ELSE {"2xx"}

Hit1 == [filedAt |-> Some(<<"2024-01-05T10:00:00", "Z">>), formType |-> Some("8-K"),
         displayNames |-> <<"Acme Corp">>, companyName |-> None,
         displayTitle |-> Some("10-K annual"), documentDescription |-> None,
         link |-> Some("doc1")]
Hit2 == [filedAt |-> None, formType |-> Some("13D"),
         displayNames |-> <<>>, companyName |-> Some("Beta LLC"),
         displayTitle |-> Some(""), documentDescription |-> Some("stake"),
         link |-> None]
SecDown == [kind |-> "exception"]
SecResponses ==
    {SecDown, [kind |-> "response", status |-> 403, hits |-> <<>>],
     [kind |-> "response", status |-> 200, hits |-> <<Hit1, Hit2>>]}
SecFaults == {0, 2}

News1 == [datetime |-> Some(700), headline |-> Some("Fund inflows"), url |-> Some("n1")]
News2 == [datetime |-> Some(0), headline |-> Some("Undated"), url |-> None]
TickerDown == [candles |-> [kind |-> "exception"], quote |-> [kind |-> "exception"],
               news |-> [kind |-> "exception"]]
TickerResponses ==
    {TickerDown,
     [candles |-> [kind |-> "response", s |-> "ok", t |-> <<300>>, c |-> <<450>>],
      quote   |-> [kind |-> "exception"],
      news    |-> [kind |-> "response", ok |-> TRUE, items |-> <<News1, News2>>]],
     [candles |-> [kind |-> "response", s |-> "no_data", t |-> <<>>, c |-> <<>>],
      quote   |-> [kind |-> "response", ok |-> TRUE, c |-> Some(451), pc |-> Some(449),
                   t |-> Some(600)],
      news    |-> [kind |-> "response", ok |-> FALSE, items |-> <<>>]],
     [candles |-> [kind |-> "response", s |-> "ok", t |-> <<300, 600>>, c |-> <<450>>],
      quote   |-> [kind |-> "response", ok |-> TRUE, c |-> Some(0), pc |-> Some(449),
                   t |-> Some(600)],
      news    |-> [kind |-> "exception"]]}
FinnhubFaults == {0, 2}

FredDown == [kind |-> "exception"]
FredResponses ==
    {FredDown,
     [kind |-> "response", ok |-> TRUE,
      observations |-> << [date |-> Some("2024-01-01"), value |-> Some(<<"4", ".", "1">>)],
                          [date |-> Some("2024-02-01"), value |-> Some(<<".">>)] >>],
     [kind |-> "response", ok |-> TRUE,
      observations |-> << [date |-> None, value |-> Some(<<"4", ".", "1">>)] >>]}
FredFaults == {0, 2}

\* The store of a first run, and the store an earlier run left.
Seeded ==
    [ensure_schema(EmptyTables) EXCEPT
        !.market_bars = upsert_bar(<<>>, "BTC", MsToTs(60500), 41000),
        !.etf_flows   = upsert_flow(<<>>, Day9, ARKB, 25000),
        !.sec_filings = insert_filing(<<>>, Some(<<"2024-01-05T10:00:00", "Z">>), Some("8-K"),
                                      Some("Acme Corp"), Some("10-K annual"), Some("older"))]
PriorStores == {EmptyTables, Seeded}

InitWorker ==
    /\ db \in PriorStores
    /\ hist = NoHist
    /\ ncalls = 0
    /\ etf = None
    /\ runs = 0
    /\ pc = "start"
    /\ env \in Environments
    /\ results = <<>>
    /\ output = NoOutput
    /\ twin = NoTwin
    /\ seen = NoObs
    /\ call = None
    /\ writers = None

\* Module level, lines 12-34.
Start ==
    /\ pc = "start"
    /\ runs' = runs + 1
    /\ IF startup(env) = "loaded"
       THEN pc' = "schema" /\ output' = output
       ELSE pc' = "exit" /\ output' = Died
    /\ UNCHANGED <<db, hist, ncalls, etf, env, results, twin, seen, call, writers>>

\* ensure_schema(), called outside any try block.
EnsureSchema ==
    /\ pc = "schema"
    /\ \E up \in BOOLEAN :
        /\ seen' = [seen EXCEPT !.schema_statements = @ + 1, !.schema_ready = up]
        /\ IF up
           THEN /\ db' = ensure_schema(db)
                /\ twin' = [db |-> ensure_schema(db), results |-> <<>>, raised |-> FALSE]
                /\ pc' = "tasks"
                /\ output' = output
           ELSE /\ db' = db
                /\ twin' = twin
                /\ pc' = "exit"
                /\ output' = Died
    /\ UNCHANGED <<hist, ncalls, etf, runs, env, results, call, writers>>

\* Variant of the loop that leaves for the summary one task early.
loop_next_early_summary(k) == IF k >= Len(TaskOrder) - 1 THEN "summary" ELSE "tasks"

\* for fn in [task_crypto, ..., task_fred]: the statement after turn k.
loop_next(k) == IF k = Len(TaskOrder) THEN "summary" ELSE "tasks"

\* One turn of the loop: task k gave res here and tw in the twin run.
Orchestrate(k, res, tw) ==
    /\ db' = res.db
    /\ seen' = [seen EXCEPT !.invoked = Append(@, TaskOrder[k]),
                            !.raised = IF res.raised THEN @ \cup {k} ELSE @,
                            !.requests = Append(@, res.requests),
                            !.changed = Append(@, res.db # db)]
    /\ twin' = [db |-> tw.db, results |-> Append(twin.results, tw.ret),
                raised |-> twin.raised \/ tw.raised]
    /\ IF run_task(TaskOrder[k], res).abort
       THEN /\ results' = results
            /\ pc' = "exit"
            /\ output' = Died
       ELSE /\ results' = Append(results, run_task(TaskOrder[k], res).entry)
            /\ pc' = loop_next(k)
            /\ output' = output
    /\ UNCHANGED <<hist, ncalls, runs, env, call, writers>>

TaskCrypto ==
    /\ pc = "tasks" /\ Len(seen.invoked) = 0
    /\ \E resp1 \in CoinResponses, resp2 \in CoinResponses,
          fault1 \in CryptoFaults, fault2 \in CryptoFaults :
       \E res \in {task_crypto(db, resp1, resp2, fault1, fault2)} :
       \E tw \in {IF res.raised THEN task_crypto(twin.db, CoinDown, CoinDown, 0, 0)
                  ELSE task_crypto(twin.db, resp1, resp2, fault1, fault2)} :
           Orchestrate(1, res, tw) /\ UNCHANGED etf

TaskEtfFlows ==
    /\ pc = "tasks" /\ Len(seen.invoked) = 1
    /\ \E resp \in WorkerFlowResponses, fault \in WorkerFlowFaults,
          delivery \in WorkerDeliveries(env.WEBHOOK_URL) :
       \E res \in {task_etf_flows(db, resp, fault, env.WEBHOOK_URL, delivery)} :
       \E tw \in {IF res.raised THEN task_etf_flows(twin.db, FlowDown, 0, env.WEBHOOK_URL, delivery)
                  ELSE task_etf_flows(twin.db, resp, fault, env.WEBHOOK_URL, delivery)} :
           /\ Orchestrate(2, res, tw)
           /\ etf' = Observe(etf, res, env.WEBHOOK_URL, delivery, db, resp, fault)

TaskSec ==
    /\ pc = "tasks" /\ Len(seen.invoked) = 2
    /\ \E resp \in SecResponses, fault \in SecFaults :
       \E res \in {task_sec(db, resp, fault)} :
       \E tw \in {IF res.raised THEN task_sec(twin.db, SecDown, 0)
                  ELSE task_sec(twin.db, resp, fault)} :
           Orchestrate(3, res, tw) /\ UNCHANGED etf

TaskFinnhub ==
    /\ pc = "tasks" /\ Len(seen.invoked) = 3
    /\ \E resp \in TickerResponses, fault \in FinnhubFaults :
       \E res \in {task_finnhub(db, env.FINNHUB_KEY, <<resp>>, fault)} :
       \E tw \in {IF res.raised THEN task_finnhub(twin.db, env.FINNHUB_KEY, <<TickerDown>>, 0)
                  ELSE task_finnhub(twin.db, env.FINNHUB_KEY, <<resp>>, fault)} :
           Orchestrate(4, res, tw) /\ UNCHANGED etf

TaskFred ==
    /\ pc = "tasks" /\ Len(seen.invoked) = 4
    /\ \E resp \in FredResponses, fault \in FredFaults :
       \E res \in {task_fred(db, env.FRED_KEY, <<resp>>, fault)} :
       \E tw \in {IF res.raised THEN task_fred(twin.db, env.FRED_KEY, <<FredDown>>, 0)
                  ELSE task_fred(twin.db, env.FRED_KEY, <<resp>>, fault)} :
           Orchestrate(5, res, tw) /\ UNCHANGED etf

\* The summary write, lines 377-383.
LogSummary ==
    /\ pc = "summary"
    /\ \E up \in BOOLEAN :
       \E r \in {log_summary(db, up, Summary(results))} :
           /\ db' = r.db
           /\ seen' = [seen EXCEPT !.summary_writes = @ + 1, !.summary_failed = r.failed,
                                   !.committed = Some(db)]
           /\ IF r.raised
              THEN pc' = "exit" /\ output' = Died
              ELSE pc' = "print" /\ output' = output
    /\ UNCHANGED <<hist, ncalls, etf, runs, env, results, twin, call, writers>>

\* print("Worker summary:", ...), after which the script ends: status 0.
PrintSummary ==
    /\ pc = "print"
    /\ output' = [stdout |-> Some(Summary(results)), code |-> Some(0)]
    /\ pc' = "exit"
    /\ UNCHANGED <<db, hist, ncalls, etf, runs, env, results, twin, seen, call, writers>>

Next ==
    \/ Start
    \/ EnsureSchema
    \/ TaskCrypto
    \/ TaskEtfFlows
    \/ TaskSec
    \/ TaskFinnhub
    \/ TaskFred
    \/ LogSummary
    \/ PrintSummary

Spec == InitWorker /\ [][Next]_vars

\* The same run under the interpreter's scheduling: a statement that can
\* run does run, every outbound call returning or failing within its
\* timeout (HTTP_TIMEOUT, connect_timeout).
SpecFair == Spec /\ WF_vars(Next)

----------------------------------------------------------------------------
(* Task specification: one of the five tasks is called, inside the         *)
(* orchestrator's try block, against a store whose schema exists, and then *)
(* called once more while its source gives the same responses.  An input   *)
(* is what the environment does during the call: the responses of the      *)
(* source, the credential, and the store call (if any) that fails.         *)

Point2 == [t_ms |-> Some(180250), px |-> Some(42100)]
TaskCoinResponses ==
    CoinResponses \cup {[kind |-> "json", prices |-> <<Point1, BadPoint, Point2>>]}

CryptoInputs ==
    [resp1 : TaskCoinResponses, resp2 : TaskCoinResponses,
     fault1 : CryptoFaults, fault2 : CryptoFaults]
EtfInputs ==
    {[resp |-> r, fault |-> f, url |-> u, delivery |-> y] :
        r \in FlowResponses \cup ParserPages, f \in WorkerFlowFaults,
        <<u, y>> \in {<<FALSE, "2xx">>, <<TRUE, "2xx">>, <<TRUE, "timeout">>}}
SecInputs == [resp : SecResponses, fault : SecFaults]
FinnhubInputs == [key : BOOLEAN, resp : TickerResponses, fault : FinnhubFaults]
FredInputs == [key : BOOLEAN, resp : FredResponses, fault : FredFaults]

\* return rows[:60]
SAFE_ROW_LIMIT == 60

\* btc_etf_flows_safe() of the dashboard (app.py): the same two passes, the
\* second one also when the table found gave no row; every exception, of
\* the request or of pd.read_html, is swallowed.
btc_etf_flows_safe(resp) ==
    IF resp.kind = "exception" THEN <<>>
    ELSE IF resp.status # 200 \/ IsNone(resp.body) THEN <<>>
    ELSE LET page == resp.body[1]
             rows == IF page.tables # <<>> THEN FlowRowsOf(page.tables[1]) ELSE <<>>
         IN  IF rows # <<>> THEN FirstN(rows, SAFE_ROW_LIMIT)
             ELSE IF IsNone(page.frames) \/ page.frames[1] = <<>> THEN <<>>
             ELSE LET df == FirstWide(page.frames[1])
                  IN  IF IsNone(df) THEN <<>>
                      ELSE FirstN(FlowRowsOf([i \in 1..Len(df[1].rows) |->
                                                 SubSeq(df[1].rows[i], 1, 3)]),
                                  SAFE_ROW_LIMIT)

\* fn() for the task of that name.
Exec(task, d, in) ==
    CASE task = "task_crypto"    -> task_crypto(d, in.resp1, in.resp2, in.fault1, in.fault2)
      [] task = "task_etf_flows" -> task_etf_flows(d, in.resp, in.fault, in.url, in.delivery)
      [] task = "task_sec"       -> task_sec(d, in.resp, in.fault)
      [] task = "task_finnhub"   -> task_finnhub(d, in.key, <<in.resp>>, in.fault)
      [] task = "task_fred"      -> task_fred(d, in.key, <<in.resp>>, in.fault)

\* One call, of outcome res: the store takes the task's writes, and the call
\* is recorded with the store it started from and what the try block
\* collected; `safe` is what the dashboard's parser recovers from the page
\* the ETF-flow task was served.
Record(task, in, res, repeated) ==
        /\ db' = res.db
        /\ call' = Some([task     |-> task,
                         in       |-> in,
                         before   |-> db,
                         raised   |-> res.raised,
                         entry    |-> run_task(task, res).entry,
                         escaped  |-> run_task(task, res).abort,
                         rows     |-> IF task = "task_etf_flows" THEN res.rows ELSE <<>>,
                         safe     |-> IF task = "task_etf_flows" THEN btc_etf_flows_safe(in.resp)
                                      ELSE <<>>,
                         hooks    |-> IF task = "task_etf_flows" THEN res.hooks ELSE 0,
                         logged   |-> IF task = "task_etf_flows" THEN res.logged ELSE 0,
                         repeated |-> repeated])
        /\ runs' = runs + 1
        /\ UNCHANGED <<hist, ncalls, etf, pc, env, results, output, twin, seen, writers>>

InitTasks ==
    /\ db \in {ensure_schema(EmptyTables), Seeded}
    /\ hist = NoHist
    /\ ncalls = 0
    /\ etf = None
    /\ runs = 0
    /\ Idle

CallCrypto ==
    /\ call = None
    /\ \E in \in CryptoInputs :
       \E res \in {task_crypto(db, in.resp1, in.resp2, in.fault1, in.fault2)} :
           Record("task_crypto", in, res, FALSE)

CallEtfFlows ==
    /\ call = None
    /\ \E in \in EtfInputs :
       \E res \in {task_etf_flows(db, in.resp, in.fault, in.url, in.delivery)} :
           Record("task_etf_flows", in, res, FALSE)

CallSec ==
    /\ call = None
    /\ \E in \in SecInputs :
       \E res \in {task_sec(db, in.resp, in.fault)} :
           Record("task_sec", in, res, FALSE)

CallFinnhub ==
    /\ call = None
    /\ \E in \in FinnhubInputs :
       \E res \in {task_finnhub(db, in.key, <<in.resp>>, in.fault)} :
           Record("task_finnhub", in, res, FALSE)

CallFred ==
    /\ call = None
    /\ \E in \in FredInputs :
       \E res \in {task_fred(db, in.key, <<in.resp>>, in.fault)} :
           Record("task_fred", in, res, FALSE)

\* The external scheduler's next invocation, the sources unchanged.
Repeat ==
    /\ call # None
    /\ ~call[1].repeated
    /\ \E res \in {Exec(call[1].task, db, call[1].in)} :
           Record(call[1].task, call[1].in, res, TRUE)

NextTasks == CallCrypto \/ CallEtfFlows \/ CallSec \/ CallFinnhub \/ CallFred \/ Repeat

SpecTasks == InitTasks /\ [][NextTasks]_vars

----------------------------------------------------------------------------
(* Concurrent callers: two overlapping worker processes (or two tasks run   *)
(* in parallel) write the same natural keys.  Each helper call is one       *)
(* INSERT ... ON CONFLICT statement committed on a connection of its own,   *)
(* which the store executes atomically; the calls of the two callers        *)
(* interleave in every order.  A caller writes values of its own, so that   *)
(* the rows tell who wrote them.                                            *)

Callers == {1, 2}
Other(c) == 3 - c

\* The helper calls of caller c, in the order of its tasks; both callers
\* read the same filing from the source.
Statements(c, filed_at_iso) ==
    << [op |-> "upsert_bar", symbol |-> "BTC", ts |-> 1000, price |-> 100 + c],
       [op |-> "upsert_flow", date |-> <<"0", "5">>, fund |-> "IBIT", flow_musd |-> 10 * c],
       [op |-> "insert_filing", filed_at |-> filed_at_iso, form |-> Some("8-K"),
        company |-> Some("Acme Corp"), title |-> Some("10-K annual"),
        link |-> Some(IF c = 1 THEN "link1" ELSE "link2")],
       [op |-> "upsert_fred", series_id |-> "DGS2", date |-> "2024-01-01", value |-> Some(40 + c)] >>

InitWriters ==
    /\ db = ensure_schema(EmptyTables)
    /\ hist = NoHist
    /\ ncalls = 0
    /\ etf = None
    /\ runs = 0
    /\ pc = "idle" /\ env = NoEnv /\ results = <<>> /\ output = NoOutput
    /\ twin = NoTwin /\ seen = NoObs /\ call = None
    /\ \E filed_at_iso \in StoreFiledAt :
          writers = Some([left   |-> [c \in Callers |-> Statements(c, filed_at_iso)],
                          order  |-> <<>>,
                          failed |-> {}])

\* Caller c's next statement commits with result r.
Commit(c, r) ==
    /\ db' = r.db
    /\ writers' = Some([left   |-> [writers[1].left EXCEPT ![c] = Tail(@)],
                        order  |-> Append(writers[1].order, <<c, Head(writers[1].left[c]).op>>),
                        failed |-> IF r.raised THEN writers[1].failed \cup {c}
                                   ELSE writers[1].failed])
    /\ UNCHANGED <<hist, ncalls, etf, runs, pc, env, results, output, twin, seen, call>>

NextOf(c, op) == writers[1].left[c] # <<>> /\ Head(writers[1].left[c]).op = op

WriterUpsertBar ==
    \E c \in Callers :
        /\ NextOf(c, "upsert_bar")
        /\ \E w \in {Head(writers[1].left[c])} :
              Commit(c, conn(db, TRUE, "market_bars",
                             upsert_bar(db.market_bars, w.symbol, w.ts, w.price)))

WriterUpsertFlow ==
    \E c \in Callers :
        /\ NextOf(c, "upsert_flow")
        /\ \E w \in {Head(writers[1].left[c])} :
              Commit(c, conn(db, TRUE, "etf_flows",
                             upsert_flow(db.etf_flows, w.date, w.fund, w.flow_musd)))

WriterInsertFiling ==
    \E c \in Callers :
        /\ NextOf(c, "insert_filing")
        /\ \E w \in {Head(writers[1].left[c])} :
              Commit(c, conn(db, TRUE, "sec_filings",
                             insert_filing(db.sec_filings, w.filed_at, w.form, w.company,
                                           w.title, w.link)))

WriterUpsertFred ==
    \E c \in Callers :
        /\ NextOf(c, "upsert_fred")
        /\ \E w \in {Head(writers[1].left[c])} :
              Commit(c, conn(db, TRUE, "fred_series",
                             upsert_fred(db.fred_series, w.series_id, w.date, w.value)))

NextWriters == WriterUpsertBar \/ WriterUpsertFlow \/ WriterInsertFiling \/ WriterUpsertFred

SpecWriters == InitWriters /\ [][NextWriters]_vars

----------------------------------------------------------------------------
(* Claims about the store helpers (store specification) *)

BarRows(symbol, ts) == {i \in 1..Len(db.market_bars) : LET r == db.market_bars[i] IN r.symbol = symbol /\ r.ts = ts}
FlowRows(date_s, fund) == {i \in 1..Len(db.etf_flows) : LET r == db.etf_flows[i] IN r.date = date_s /\ r.fund = fund}
FredRows(series_id, date_str) ==
    {i \in 1..Len(db.fred_series) : LET r == db.fred_series[i] IN r.series_id = series_id /\ r.date = date_str}
FilingRows(k) ==
    {i \in 1..Len(db.sec_filings) : LET r == db.sec_filings[i] IN <<r.filed_at, r.form, r.company, r.title>> = k}

\* C2: after any sequence of upsert_bar calls, market_bars holds at most one
\* row per (symbol, ts): none for a key never written, and for a written key
\* exactly one, whose close is the price of the most recent call, whose open,
\* high and low are the price of the first call, and whose volume is 0.
C2_BarFirstOhlLastClose ==
    \A symbol \in StoreSymbols, ts \in StoreTs :
        IF <<symbol, ts>> \in DOMAIN hist.bars
        THEN /\ Cardinality(BarRows(symbol, ts)) = 1
             /\ \A i \in BarRows(symbol, ts) :
                  LET r == db.market_bars[i] h == hist.bars[<<symbol, ts>>]
                  IN  /\ r.close = h.last
                      /\ r.open = h.first /\ r.high = h.first /\ r.low = h.first
                      /\ r.volume = 0
        ELSE BarRows(symbol, ts) = {}

\* A key written at least twice with different prices, beside another key.
C2_Witness ==
    /\ \E k \in DOMAIN hist.bars : hist.bars[k].first # hist.bars[k].last
    /\ Len(db.market_bars) >= 2

\* C3: last write wins on etf_flows and fred_series: exactly one row per key
\* ever written, none for any other key, and the row's amount / value is the
\* one passed by the most recent call for the key (a null value included).
C3_LastWriteWins ==
    /\ \A date_s \in StoreDates, fund \in StoreFunds :
        IF <<date_s, fund>> \in DOMAIN hist.flows
        THEN /\ Cardinality(FlowRows(date_s, fund)) = 1
             /\ \A i \in FlowRows(date_s, fund) :
                  db.etf_flows[i].flow_musd = hist.flows[<<date_s, fund>>].last
        ELSE FlowRows(date_s, fund) = {}
    /\ \A series_id \in StoreSeries, date_str \in StoreFredDays :
        IF <<series_id, date_str>> \in DOMAIN hist.fred
        THEN /\ Cardinality(FredRows(series_id, date_str)) = 1
             /\ \A i \in FredRows(series_id, date_str) :
                  db.fred_series[i].value = hist.fred[<<series_id, date_str>>].last
        ELSE FredRows(series_id, date_str) = {}

\* A flow amount overwritten by a different one, and a macro value revised to null.
C3_Witness ==
    /\ \E k \in DOMAIN hist.flows : hist.flows[k].first # hist.flows[k].last
    /\ \E k \in DOMAIN hist.fred :
         hist.fred[k].first # None /\ hist.fred[k].last = None

\* C4: first write wins for filings: every natural key (filed_at, form,
\* company, title) that insert_filing stored, a null filed_at included, has
\* exactly one sec_filings row, and that row holds the first call's link.
C4_FilingFirstWriteWins ==
    \A k \in DOMAIN hist.filings :
        /\ Cardinality(FilingRows(k)) = 1
        /\ \A i \in FilingRows(k) : db.sec_filings[i].link = hist.filings[k].first

Tables == {"market_bars", "etf_flows", "sec_filings", "fred_series", "news", "alerts"}
\* A row without the one column the claim lets a later write modify.
Fixed(table, r) ==
    IF table = "market_bars" THEN [r EXCEPT !.close = 0]
    ELSE IF table = "etf_flows" THEN [r EXCEPT !.flow_musd = 0]
    ELSE IF table = "fred_series" THEN [r EXCEPT !.value = None]
    ELSE r

\* C19: no helper call removes a row from any table or moves one; a row of
\* alerts, of sec_filings (and of news) is never changed once written; of an
\* existing row of market_bars only close, of etf_flows only flow_musd and
\* of fred_series only value can change.
C19_NoDeleteAndImmutableRows ==
    [][ \A table \in Tables :
          /\ Len(db'[table]) >= Len(db[table])
          /\ \A i \in 1..Len(db[table]) :
                Fixed(table, db'[table][i]) = Fixed(table, db[table][i])
      ]_vars

\* A bar whose close was rewritten and whose open was not, and a filing
\* written again with another link that still has the link written first.
C19_Witness ==
    /\ \E i \in 1..Len(db.market_bars) : db.market_bars[i].close # db.market_bars[i].open
    /\ \E k \in DOMAIN hist.filings :
          /\ hist.filings[k].first # hist.filings[k].last
          /\ \E i \in 1..Len(db.sec_filings) :
                /\ db.sec_filings[i].filed_at = k[1] /\ k[1] # None
                /\ db.sec_filings[i].link = hist.filings[k].first
    /\ Len(db.sec_filings) = 1

----------------------------------------------------------------------------
(* Claims about the alert evaluator and the notification sink (flow          *)
(* specification); e is the observation of the latest task_etf_flows run.    *)

Threshold == 100 * FLOW_ALERT_MUSD
MeetsThreshold(e) ==
    ~IsNone(e.net) /\ (e.net[1] >= Threshold \/ e.net[1] <= 0 - Threshold)

\* C5: an etf_net_flow alert is raised if and only if the run recovered at
\* least one flow row and the absolute value of the queried sum is at or
\* above FLOW_ALERT_MUSD: then, and only then, the sink is invoked, and the
\* record is appended whenever the task returns.  A run that recovered no
\* rows raises no alert, issues no sum query and reports success.
C5_AlertIffThresholdMet ==
    \A i \in 1..Len(etf) :
        LET e == etf[i] IN
        /\ (e.hooks = 1) <=> (Len(e.rows) >= 1 /\ MeetsThreshold(e))
        /\ e.hooks \in {0, 1} /\ e.logged <= e.hooks
        /\ ~e.raised => e.logged = e.hooks
        /\ Len(e.rows) = 0 =>
             /\ e.queries = 0 /\ e.hooks = 0 /\ e.logged = 0
             /\ ~e.raised /\ e.ret = <<TRUE, <<"etf rows upserted", 0>>>>

\* A sum of exactly minus the threshold fired the alert.
C5_Witness ==
    etf # None /\ etf[1].net = Some(0 - Threshold) /\ etf[1].hooks = 1 /\ etf[1].logged = 1

\* The date evaluated: the greatest, in string order, of the run's dates.
EvaluatedDate(e) ==
    CHOOSE x \in {e.rows[i].date : i \in 1..Len(e.rows)} :
        \A i \in 1..Len(e.rows) : ~StrLess(x, e.rows[i].date)
StoredOn(date_s) == {i \in 1..Len(db.etf_flows) : db.etf_flows[i].date = date_s}
RECURSIVE SumStored(_)
SumStored(I) ==
    IF I = {} THEN 0
    ELSE LET i == CHOOSE j \in I : TRUE
         IN  db.etf_flows[i].flow_musd + SumStored(I \ {i})

\* C6: the amount compared to the threshold is the sum of flow_musd over
\* every row persisted in etf_flows for the evaluated date (rows of earlier
\* runs included, rows of other dates excluded, an overwritten row counted
\* with its new amount), the evaluated date being the greatest in string
\* order of the dates of the rows upserted in this run.
C6_NetIsStoredSumOfLatestDate ==
    \A i \in 1..Len(etf) :
        LET e == etf[i] IN
        ~IsNone(e.net) => e.net[1] = SumStored(StoredOn(EvaluatedDate(e)))

\* The evaluated date holds a row of a fund this run did not fetch, the run
\* fetched two dates, and the sum met the threshold only with the older row.
C6_Witness ==
    /\ etf # None /\ ~IsNone(etf[1].net) /\ etf[1].hooks = 1
    /\ \E i \in StoredOn(EvaluatedDate(etf[1])) :
         \A j \in 1..Len(etf[1].rows) : etf[1].rows[j].fund # db.etf_flows[i].fund
    /\ \E j \in 1..Len(etf[1].rows) : etf[1].rows[j].date # EvaluatedDate(etf[1])
    /\ EvaluatedDate(etf[1]) = Day9

FlowAlerts == {i \in 1..Len(db.alerts) : db.alerts[i].kind = "etf_net_flow"}

\* C7: no suppression across runs and no duplication within one: an
\* execution appends at most one etf_net_flow record, and the records on
\* file are exactly one per execution that met the threshold and returned,
\* also when an identical record is already there.
C7_OneAlertPerCrossingRun ==
    \A i \in 1..Len(etf) :
        /\ etf[i].logged <= 1
        /\ Cardinality(FlowAlerts) = etf[i].crossings

\* Two runs over the same data left two identical records.
C7_Witness ==
    /\ runs = 2 /\ Cardinality(FlowAlerts) = 2
    /\ \A i, j \in FlowAlerts : db.alerts[i].payload = db.alerts[j].payload

\* C8: webhook returns normally for every delivery result, attempts no
\* delivery without a destination and at most one otherwise, and the
\* outcome and persisted rows of task_etf_flows are those of a run whose
\* delivery succeeded.
C8_SinkNeverChangesOutcome ==
    \A i \in 1..Len(etf) :
        LET e == etf[i] IN
        /\ ~e.hook_raised
        /\ e.posts <= e.hooks
        /\ ~e.url => e.posts = 0
        /\ e.as_delivered

\* A delivery that timed out, after which the task wrote its record and returned.
C8_Witness ==
    /\ etf # None /\ etf[1].posts = 1 /\ etf[1].delivery \in {"timeout", "connect_error"}
    /\ etf[1].logged = 1 /\ ~etf[1].raised

\* C17: notification and durable record go together: every execution of
\* task_etf_flows that met the threshold ends with the sink invoked and one
\* etf_net_flow record appended for the same crossing, and no execution,
\* whatever fails in the store or in the delivery, ends with the sink invoked
\* and no record appended, or with a record appended and the sink not invoked.
C17_NotificationAndRecordTogether ==
    \A i \in 1..Len(etf) :
        LET e == etf[i] IN
        /\ MeetsThreshold(e) => (e.hooks = 1 /\ e.logged = 1)
        /\ e.hooks = e.logged
        /\ e.posts = 1 => e.logged = 1

----------------------------------------------------------------------------
(* Claims about the orchestrator and the process (worker specification) *)

\* The rows task k is responsible for, in insertion order.
CoinBar(r) == r.symbol \in {"BTC", "ETH"}
TickerBar(r) == \E i \in 1..Len(FINNHUB_TICKERS) : r.symbol = FINNHUB_TICKERS[i]
FlowAlert(r) == r.kind = "etf_net_flow"
TaskRows(k, d) ==
    CASE k = 1 -> <<SelectSeq(d.market_bars, CoinBar)>>
      [] k = 2 -> <<d.etf_flows, SelectSeq(d.alerts, FlowAlert)>>
      [] k = 3 -> <<d.sec_filings>>
      [] k = 4 -> <<SelectSeq(d.market_bars, TickerBar), d.news>>
      [] k = 5 -> <<d.fred_series>>

\* C1: once the schema is ready, whichever tasks raise, the tasks are invoked
\* one after the other in the fixed order, each exactly once, and the run
\* reaches its summary with all five invoked; the results list has one entry
\* per invoked task in that order; the entry of a task that raised is
\* (False, "<task> error: ..."); the entry and the persisted rows of every
\* other task are those of the twin run, in which no task raised.
C1_PartialFailureIsolation ==
    seen.schema_ready =>
        /\ seen.invoked = SubSeq(TaskOrder, 1, Len(seen.invoked))
        /\ Len(results) = Len(seen.invoked)
        /\ pc # "tasks" => seen.invoked = TaskOrder
        /\ ~twin.raised /\ Len(twin.results) = Len(results)
        /\ \A k \in 1..Len(results) :
              IF k \in seen.raised
              THEN results[k] = <<FALSE, <<TaskOrder[k], "error">>>>
              ELSE /\ results[k] = twin.results[k]
                   /\ TaskRows(k, db) = TaskRows(k, twin.db)

\* The second and the fourth task raised, the second after it had written;
\* the first, third and fifth succeeded and their rows are in the store.
C1_Witness ==
    /\ pc = "exit" /\ seen.raised = {2, 4}
    /\ db.etf_flows # twin.db.etf_flows
    /\ results[1][1] /\ results[3][1] /\ results[5][1]
    /\ Len(SelectSeq(db.market_bars, CoinBar)) = 2
    /\ Len(db.sec_filings) >= 2 /\ Len(db.fred_series) = 2

SummaryAlert(r) == r.kind = "worker_summary"

\* C9: a run whose schema initialization succeeded makes exactly one write
\* of a worker_summary alert record, after all five tasks have been invoked
\* and their results collected, and none before; when the write fails the
\* process still prints the summary and exits normally, and the store is as
\* the tasks left it; when it succeeds the store differs by that record only.
C9_OneSummaryAttemptAfterTasks ==
    /\ seen.summary_writes <= 1
    /\ seen.summary_writes = 1 <=> (seen.schema_ready /\ pc \in {"print", "exit"})
    /\ seen.summary_writes = 1 => seen.invoked = TaskOrder /\ Len(results) = Len(TaskOrder)
    /\ seen.summary_writes = 0 => SelectSeq(db.alerts, SummaryAlert) = <<>>
    /\ (seen.schema_ready /\ pc = "exit") =>
          output = [stdout |-> Some(Summary(results)), code |-> Some(0)]
    /\ seen.summary_writes = 1 =>
          db = IF seen.summary_failed THEN seen.committed[1]
               ELSE [seen.committed[1] EXCEPT !.alerts =
                        Append(@, [kind |-> "worker_summary", payload |-> Summary(results)])]

\* The summary write failed after tasks had committed rows: the summary was
\* printed all the same and no summary record is on file.
C9_Witness ==
    /\ pc = "exit" /\ seen.summary_writes = 1 /\ seen.summary_failed
    /\ output.stdout = Some(Summary(results))
    /\ db.market_bars # <<>> /\ db.fred_series # <<>>
    /\ SelectSeq(db.alerts, SummaryAlert) = <<>>

NothingDone ==
    seen.invoked = <<>> /\ seen.summary_writes = 0 /\ output.stdout = None

\* C10 as stated: the process ends with a non-zero status, before any schema
\* statement, task or summary write, when DATABASE_URL is absent, and with
\* status 0 and a summary in every other run, whatever fails in the store or
\* in a task, schema initialization included.
C10_OnlyMissingUrlIsFatal ==
    pc = "exit" =>
        IF ~env.DATABASE_URL
        THEN output.code # Some(0) /\ seen.schema_statements = 0 /\ NothingDone
        ELSE output.code = Some(0) /\ output.stdout # None

\* C10, amended: the process ends with a non-zero status, and without having
\* run a task or written or printed a summary, in exactly three cases, all
\* before the first task: DATABASE_URL is absent or FLOW_ALERT_MUSD is not a
\* number (then no schema statement was issued either), or schema
\* initialization raised; in every other run it ends with status 0 and has
\* printed the summary of all five tasks, whatever failed in the store or in
\* a task after schema initialization.
C10_FatalOnlyBeforeTasks ==
    IF pc # "exit" THEN output.code = None
    ELSE IF ~env.DATABASE_URL \/ IsNone(flow_alert_knob(env))
    THEN output.code = Some(1) /\ seen.schema_statements = 0 /\ NothingDone
    ELSE IF ~seen.schema_ready
    THEN output.code = Some(1) /\ seen.schema_statements = 1 /\ NothingDone
    ELSE /\ output = [stdout |-> Some(Summary(results)), code |-> Some(0)]
         /\ Len(results) = Len(TaskOrder)

\* Status 0 although four tasks raised and the summary write failed.
C10_Witness ==
    /\ pc = "exit" /\ output.code = Some(0)
    /\ seen.raised = {2, 3, 4, 5} /\ seen.summary_failed

\* C11: without FINNHUB_KEY task_finnhub returns (True, "finnhub skipped (no
\* key)"), and without FRED_KEY task_fred returns (True, "fred skipped (no
\* key)"); the task then sends no request, leaves the store as it found it,
\* does not raise, and the run goes on with the tasks that follow.
C11_SkippedWithoutCredential ==
    /\ (Len(results) >= 4 /\ ~env.FINNHUB_KEY) =>
          /\ results[4] = <<TRUE, <<"finnhub skipped (no key)">>>>
          /\ seen.requests[4] = 0 /\ ~seen.changed[4] /\ 4 \notin seen.raised
    /\ (Len(results) >= 5 /\ ~env.FRED_KEY) =>
          /\ results[5] = <<TRUE, <<"fred skipped (no key)">>>>
          /\ seen.requests[5] = 0 /\ ~seen.changed[5] /\ 5 \notin seen.raised
    /\ (seen.schema_ready /\ pc # "tasks") => seen.invoked = TaskOrder
    /\ \A k \in 1..Len(results) :
          k \notin seen.raised => TaskRows(k, db) = TaskRows(k, twin.db)

\* Both credentials absent: both tasks skipped in a run whose other tasks
\* wrote their rows, and the run ended normally.
C11_Witness ==
    /\ pc = "exit" /\ ~env.FINNHUB_KEY /\ ~env.FRED_KEY /\ output.code = Some(0)
    /\ Len(results) = 5 /\ seen.requests[4] = 0 /\ seen.requests[5] = 0
    /\ seen.changed[1] /\ seen.changed[3]

----------------------------------------------------------------------------
(* Claims about the adapters (task specification); c is the latest call *)

\* The source failed as a whole: the endpoint was unreachable or answered
\* with an error status (for the equity source: all three endpoints).
SourceFailed(c) ==
    CASE c.task = "task_crypto" ->
            c.in.resp1.kind = "exception" \/ c.in.resp2.kind = "exception"
      [] c.task = "task_etf_flows" ->
            c.in.resp.kind = "exception" \/ c.in.resp.status # 200
      [] c.task = "task_sec" ->
            c.in.resp.kind = "exception" \/ c.in.resp.status # 200
      [] c.task = "task_finnhub" ->
            c.in.key /\ c.in.resp = TickerDown
      [] c.task = "task_fred" ->
            c.in.key /\ (c.in.resp.kind = "exception" \/ ~c.in.resp.ok)

\* C12: a call of any of the five tasks during which its source failed as a
\* whole is collected by the orchestrator with ok = false, and no exception
\* leaves the try block.
C12_SourceFailureIsTaskFailure ==
    \A i \in 1..Len(call) :
        SourceFailed(call[i]) => ~call[i].escaped /\ call[i].entry[1] = FALSE

\* A record of the response is malformed (a price point without a price or a
\* time, a flow row whose amount is not a number, an observation without a
\* date) while the request itself succeeded and the store stayed reachable.
BadPoints(resp) ==
    resp.kind = "json" /\ \E i \in 1..Len(resp.prices) :
        IsNone(resp.prices[i].t_ms) \/ IsNone(resp.prices[i].px)
BadFlowRow(cols) ==
    Len(cols) >= 3 /\ ~Contains(Lower(cols[1]), HeaderWord) /\ IsNone(FlowRowOf(cols))
HasMalformedRecord(c) ==
    CASE c.task = "task_crypto" ->
            /\ c.in.resp1.kind = "json" /\ c.in.resp2.kind = "json"
            /\ c.in.fault1 = 0 /\ c.in.fault2 = 0
            /\ (BadPoints(c.in.resp1) \/ BadPoints(c.in.resp2))
      [] c.task = "task_etf_flows" ->
            /\ c.in.fault = 0 /\ c.in.resp.kind = "response" /\ c.in.resp.status = 200
            /\ ~IsNone(c.in.resp.body) /\ c.in.resp.body[1].tables # <<>>
            /\ \E i \in 1..Len(c.in.resp.body[1].tables[1]) :
                  BadFlowRow(c.in.resp.body[1].tables[1][i])
      [] c.task = "task_fred" ->
            /\ c.in.key /\ c.in.fault = 0 /\ c.in.resp.kind = "response" /\ c.in.resp.ok
            /\ \E i \in 1..Len(c.in.resp.observations) :
                  IsNone(c.in.resp.observations[i].date)
      [] OTHER -> FALSE

\* Every well-formed record of the response is in store d.
PointsPersisted(label, resp, d) ==
    \A i \in 1..Len(resp.prices) :
        LET p == resp.prices[i]
        IN  (~IsNone(p.t_ms) /\ ~IsNone(p.px)) =>
               \E j \in 1..Len(d.market_bars) :
                   /\ d.market_bars[j].symbol = label
                   /\ d.market_bars[j].ts = MsToTs(p.t_ms[1])
                   /\ d.market_bars[j].close = p.px[1]
WellFormedPersisted(c, d) ==
    CASE c.task = "task_crypto" ->
            PointsPersisted("BTC", c.in.resp1, d) /\ PointsPersisted("ETH", c.in.resp2, d)
      [] c.task = "task_etf_flows" ->
            \A i \in 1..Len(c.in.resp.body[1].tables[1]) :
                LET row == FlowRowOf(c.in.resp.body[1].tables[1][i])
                IN  ~IsNone(row) =>
                       \E j \in 1..Len(d.etf_flows) :
                           d.etf_flows[j].date = row[1].date /\ d.etf_flows[j].fund = row[1].fund
      [] c.task = "task_fred" ->
            \A i \in 1..Len(c.in.resp.observations) :
                LET o == c.in.resp.observations[i]
                IN  ~IsNone(o.date) =>
                       \E j \in 1..Len(d.fred_series) : d.fred_series[j].date = o.date[1]
      [] OTHER -> TRUE

\* C13: in every adapter a malformed record inside an otherwise successful
\* fetch is skipped: the task is collected with ok = true and the records
\* before and after the malformed one are all in the store.
C13_MalformedRecordIsSkipped ==
    \A i \in 1..Len(call) :
        HasMalformedRecord(call[i]) =>
            /\ call[i].entry[1] = TRUE
            /\ WellFormedPersisted(call[i], db)

FaultFree(c) ==
    IF c.task = "task_crypto" THEN c.in.fault1 = 0 /\ c.in.fault2 = 0 ELSE c.in.fault = 0
KeyedTables(d) == <<d.market_bars, d.etf_flows, d.sec_filings, d.fred_series>>

\* C14: a task called a second time, its source giving the same responses
\* and the store reachable, leaves market_bars, etf_flows, sec_filings and
\* fred_series with exactly the rows and values the first call left.
C14_RerunKeepsKeyedTables ==
    \A i \in 1..Len(call) :
        (call[i].repeated /\ FaultFree(call[i]) /\ ~call[i].raised) =>
            KeyedTables(db) = KeyedTables(call[i].before)

\* The claim's reading of a flow text: its characters other than '$', 'm'
\* and ',' form a signed number, [sign] digits [. digits]; its value, in
\* hundredths, is the sum of its digits by decimal weight.
NotDecoration(c) == c \notin {"$", "m", ","}
Unsigned(t) == IF t # <<>> /\ t[1] \in {"-", "+"} THEN Tail(t) ELSE t
DotAt(b) == IF \E i \in 1..Len(b) : b[i] = "." THEN CHOOSE i \in 1..Len(b) : b[i] = "."
            ELSE Len(b) + 1
IsSignedNumber(t) ==
    LET b == Unsigned(t)
    IN  /\ \A i \in 1..Len(b) : b[i] \in Digits \/ i = DotAt(b)
        /\ \E i \in 1..Len(b) : b[i] \in Digits
        /\ Len(b) - DotAt(b) <= 2
RECURSIVE Pow10(_)
Pow10(n) == IF n = 0 THEN 1 ELSE 10 * Pow10(n - 1)
RECURSIVE WeightedDigits(_, _)
WeightedDigits(b, i) ==
    IF i > Len(b) THEN 0
    ELSE (IF i < DotAt(b) THEN DigitVal(b[i]) * 100 * Pow10(DotAt(b) - 1 - i)
          ELSE IF i > DotAt(b) THEN DigitVal(b[i]) * Pow10(2 - (i - DotAt(b)))
          ELSE 0)
         + WeightedDigits(b, i + 1)
NumberValue(t) ==
    IF t # <<>> /\ t[1] = "-" THEN 0 - WeightedDigits(Unsigned(t), 1)
    ELSE WeightedDigits(Unsigned(t), 1)

\* The rows of a table that the claim says are returned.
KeptRows(trs) ==
    {i \in 1..Len(trs) :
        /\ Len(trs[i]) >= 3
        /\ ~\E k \in 0..(Len(trs[i][1]) - 4) :
               Lower(trs[i][1])[k + 1] = "f" /\ Lower(trs[i][1])[k + 2] = "u"
               /\ Lower(trs[i][1])[k + 3] = "n" /\ Lower(trs[i][1])[k + 4] = "d"
        /\ IsSignedNumber(SelectSeq(trs[i][3], NotDecoration))}
\* The k-th of them in source order.
KeptRow(trs, k) ==
    CHOOSE i \in KeptRows(trs) : Cardinality({j \in KeptRows(trs) : j <= i}) = k

\* C15: for a page with a table, the rows the ETF-flow adapter returns are,
\* in source order, exactly the rows of the table that have at least three
\* cells, whose first cell does not contain "fund" in any letter case and
\* whose third cell is a signed number once '$', 'm' and ',' are removed;
\* each carries its first cell as fund, its second as date and the number as
\* amount.  A row whose amount is no number is left out and the rows after it
\* are still processed.
C15_FlowRowParser ==
    \A i \in 1..Len(call) :
        LET c == call[i] IN
        (/\ c.task = "task_etf_flows" /\ c.in.resp.kind = "response" /\ c.in.resp.status = 200
         /\ ~IsNone(c.in.resp.body) /\ c.in.resp.body[1].tables # <<>>) =>
            LET trs == c.in.resp.body[1].tables[1]
            IN  /\ Len(c.rows) = Cardinality(KeptRows(trs))
                /\ \A k \in 1..Len(c.rows) :
                      LET cols == trs[KeptRow(trs, k)]
                      IN  c.rows[k] = [fund |-> cols[1], date |-> cols[2],
                                       flow_musd |-> NumberValue(SelectSeq(cols[3], NotDecoration))]

\* "$1,234.5m" parsed to 1234.5 and, after a row with "n/a", a header-like
\* row and a two-cell row, "-$12.0m" parsed to -12.0.
C15_Witness ==
    /\ call # None /\ call[1].task = "task_etf_flows" /\ call[1].in.resp = RichPage
    /\ call[1].rows = << [fund |-> IBIT, date |-> Day9, flow_musd |-> 123450],
                         [fund |-> ARKB, date |-> Day10, flow_musd |-> 0 - 1200] >>

----------------------------------------------------------------------------
(* Claims about the order of a worker run.                                 *)

\* The steps of a run: NOT_STARTED is "start" and "schema", the tasks run
\* at "tasks", SUMMARY_LOGGED is reached by the step from "summary", DONE
\* is the exit with status 0.
RunSteps ==
    {<<"start", "schema">>, <<"start", "exit">>, <<"schema", "tasks">>, <<"schema", "exit">>,
     <<"tasks", "tasks">>, <<"tasks", "summary">>, <<"summary", "print">>, <<"print", "exit">>}
TaskStarted == Len(seen'.invoked) > Len(seen.invoked)

\* C16: a worker run goes from NOT_STARTED through SCHEMA_READY, the five
\* tasks in their order, SUMMARY_LOGGED and DONE.  A task starts only after
\* schema initialization has completed and after every task before it has
\* finished with its result collected, no task is entered twice (a failed
\* one included), a task's step is the only one between schema
\* initialization and the summary that writes to the store, and the summary
\* is written once, only after all five tasks have finished.
C16_RunOrder ==
    [][ /\ pc' # pc => <<pc, pc'>> \in RunSteps
        /\ TaskStarted =>
              /\ seen.schema_ready
              /\ Len(results) = Len(seen.invoked)
              /\ seen'.invoked = Append(seen.invoked, TaskOrder[Len(seen.invoked) + 1])
              /\ Len(results') = Len(seen'.invoked)
              /\ Len(seen'.invoked) \in seen'.raised => ~results'[Len(results')][1]
              /\ seen.summary_writes = 0
        /\ \A i, j \in 1..Len(seen'.invoked) : seen'.invoked[i] = seen'.invoked[j] => i = j
        /\ (db' # db /\ ~TaskStarted) => pc \in {"schema", "summary"}
        /\ (db' # db /\ pc # "schema") => seen.schema_ready
        /\ seen'.summary_writes # seen.summary_writes =>
              /\ seen.summary_writes = 0 /\ seen'.summary_writes = 1
              /\ seen.invoked = TaskOrder /\ Len(results) = Len(TaskOrder)
        /\ (output'.code = Some(0) /\ output.code # Some(0)) =>
              seen.summary_writes = 1 /\ Len(results) = Len(TaskOrder)
      ]_vars

\* A run that reached DONE although its second and last tasks failed.
C16_Witness ==
    /\ pc = "exit" /\ output.code = Some(0) /\ seen.schema_ready
    /\ seen.invoked = TaskOrder /\ seen.raised = {2, 5} /\ seen.summary_writes = 1
    /\ ~results[2][1] /\ ~results[5][1] /\ results[1][1]

----------------------------------------------------------------------------
(* Claims about concurrent callers (specification of the two writers) *)

WritersDone == \A c \in Callers : writers[1].left[c] = <<>>
\* The caller whose statement op committed first, and last.
FirstWriter(op) ==
    writers[1].order[CHOOSE i \in 1..Len(writers[1].order) :
                        /\ writers[1].order[i][2] = op
                        /\ \A j \in 1..(i - 1) : writers[1].order[j][2] # op][1]
LastWriter(op) == Other(FirstWriter(op))
NoKeyTwice(keys) == \A i, j \in 1..Len(keys) : keys[i] = keys[j] => i = j
BarKey(r) == <<r.symbol, r.ts>>
FlowKey(r) == <<r.date, r.fund>>
FilingKey(r) == <<r.filed_at, r.form, r.company, r.title>>
FredKey(r) == <<r.series_id, r.date>>

\* C18: under every interleaving of two callers that upsert the same natural
\* keys, when both are done every keyed table holds at most one row per
\* natural key, the row holds values written by a caller (a bar has the
\* open, high and low of the insert that came first and the close of the
\* write that came last; a flow and an observation have the value written
\* last; a filing has the link written first), and no caller failed.
C18_ConcurrentUpsertsAreAtomic ==
    (writers # None /\ WritersDone) =>
        /\ NoKeyTwice([i \in 1..Len(db.market_bars) |-> BarKey(db.market_bars[i])])
        /\ NoKeyTwice([i \in 1..Len(db.etf_flows) |-> FlowKey(db.etf_flows[i])])
        /\ NoKeyTwice([i \in 1..Len(db.sec_filings) |-> FilingKey(db.sec_filings[i])])
        /\ NoKeyTwice([i \in 1..Len(db.fred_series) |-> FredKey(db.fred_series[i])])
        /\ \A i \in 1..Len(db.market_bars) :
              LET r == db.market_bars[i] IN
              /\ r.open = 100 + FirstWriter("upsert_bar") /\ r.high = r.open /\ r.low = r.open
              /\ r.close = 100 + LastWriter("upsert_bar")
        /\ \A i \in 1..Len(db.etf_flows) :
              db.etf_flows[i].flow_musd = 10 * LastWriter("upsert_flow")
        /\ \A i \in 1..Len(db.fred_series) :
              db.fred_series[i].value = Some(40 + LastWriter("upsert_fred"))
        /\ \A i \in 1..Len(db.sec_filings) :
              db.sec_filings[i].link \in {Some("link1"), Some("link2")}
        /\ Len(db.market_bars) = 1 /\ Len(db.etf_flows) = 1 /\ Len(db.fred_series) = 1
        /\ writers[1].failed = {}

----------------------------------------------------------------------------
(* Claims about the chain of parse strategies (task specification) *)

Fetched(resp) == resp.kind = "response" /\ resp.status = 200 /\ ~IsNone(resp.body)
\* What each strategy gives on a page: None when it finds nothing to parse
\* (no <table> element; no extracted table with three columns), else rows.
Primary(page) == IF page.tables = <<>> THEN None ELSE Some(FlowRowsOf(page.tables[1]))
Generic(page) ==
    IF IsNone(page.frames) THEN None
    ELSE IF \A i \in 1..Len(page.frames[1]) : page.frames[1][i].ncols < 3 THEN None
    ELSE LET df == page.frames[1][CHOOSE i \in 1..Len(page.frames[1]) :
                                     /\ page.frames[1][i].ncols >= 3
                                     /\ \A j \in 1..(i - 1) : page.frames[1][j].ncols < 3]
         IN  Some(FlowRowsOf([i \in 1..Len(df.rows) |-> SubSeq(df.rows[i], 1, 3)]))
Yields(s) == ~IsNone(s) /\ s[1] # <<>>
\* The chain tried until a strategy yields a row.
UntilRows(page) ==
    IF Yields(Primary(page)) THEN Primary(page)[1]
    ELSE IF Yields(Generic(page)) THEN Generic(page)[1]
    ELSE <<>>
\* The chain tried until a strategy finds something to parse.
UntilMatch(page) ==
    IF ~IsNone(Primary(page)) THEN Primary(page)[1]
    ELSE IF ~IsNone(Generic(page)) THEN Generic(page)[1]
    ELSE <<>>
EmptyIsSuccess(c) ==
    c.rows = <<>> =>
        ~c.raised /\ ~c.escaped /\ c.entry = <<TRUE, <<"etf rows upserted", 0>>>>

\* C20 as stated: the two strategies are tried in sequence until one yields
\* at least one row or the chain is exhausted, in the worker's adapter and
\* in the dashboard's; an exhausted chain gives an empty result and the task
\* reports success.
C20_ChainUntilOneYieldsRows ==
    \A i \in 1..Len(call) :
        LET c == call[i] IN
        c.task = "task_etf_flows" =>
            /\ Fetched(c.in.resp) =>
                  /\ c.rows = UntilRows(c.in.resp.body[1])
                  /\ c.safe = UntilRows(c.in.resp.body[1])
            /\ EmptyIsSuccess(c)

\* C20 amended: in the worker's adapter the generic extraction is tried
\* only when the primary parser finds no table (a table that is found ends
\* the chain with the rows it yields, even none); in the dashboard's
\* adapter it is tried whenever the primary parser yielded no row, and at
\* most the first SAFE_ROW_LIMIT rows are returned.  In both,
\* a failed fetch or an exhausted chain gives an empty result, and the task
\* then reports success.
C20_ChainByVariant ==
    \A i \in 1..Len(call) :
        LET c == call[i] IN
        c.task = "task_etf_flows" =>
            /\ Fetched(c.in.resp) =>
                  /\ c.rows = UntilMatch(c.in.resp.body[1])
                  /\ c.safe = FirstN(UntilRows(c.in.resp.body[1]), SAFE_ROW_LIMIT)
            /\ ~Fetched(c.in.resp) => (c.rows = <<>> /\ c.safe = <<>>)
            /\ EmptyIsSuccess(c)

\* The first table of the page is a layout table: the worker stopped at it
\* with no row and reported success, the dashboard went on and found the row.
C20_Witness ==
    /\ call # None /\ call[1].task = "task_etf_flows" /\ call[1].in.resp = LayoutPage
    /\ call[1].rows = <<>> /\ call[1].entry[1] = TRUE
    /\ call[1].safe = << [fund |-> IBIT, date |-> Day9, flow_musd |-> 25000] >>

----------------------------------------------------------------------------
(* Claims about termination (worker specification with fairness) *)

Done == pc = "exit" /\ output.code = Some(0) /\ output.stdout # None
\* The requests a task may send, each once: two price documents; one page;
\* one search; per ticker the candles, the quote when there are no candles,
\* and the news; per series one observation list.
RequestsOnce ==
    /\ seen.schema_statements <= 1 /\ seen.summary_writes <= 1
    /\ \A k \in 1..Len(seen.requests) :
          CASE k = 1 -> seen.requests[k] = 2
            [] k = 2 -> seen.requests[k] = 1
            [] k = 3 -> seen.requests[k] = 1
            [] k = 4 -> IF env.FINNHUB_KEY
                        THEN /\ seen.requests[k] >= Len(FINNHUB_TICKERS)
                             /\ seen.requests[k] <= 3 * Len(FINNHUB_TICKERS)
                        ELSE seen.requests[k] = 0
            [] k = 5 -> IF env.FRED_KEY
                        THEN /\ seen.requests[k] >= 1
                             /\ seen.requests[k] <= Len(FRED_SERIES)
                        ELSE seen.requests[k] = 0
    /\ \A i \in 1..Len(etf) : etf[i].posts <= 1 /\ etf[i].queries <= 1
    /\ \A i, j \in 1..Len(seen.invoked) : seen.invoked[i] = seen.invoked[j] => i = j

\* C21 as stated: every run started with a connection string eventually
\* reaches DONE (the summary printed, status 0), and every external request
\* of the run is sent once, a failed one never again.
C21_EveryRunReachesDone ==
    /\ env.DATABASE_URL => <>Done
    /\ []RequestsOnce

\* C21, amended: every run ends.  One started with a connection string
\* reaches DONE unless it ends before its first task, with a non-zero
\* status, because FLOW_ALERT_MUSD is not a number or schema initialization
\* failed; every external request of the run is sent once, a failed one
\* never again, and no task is entered twice.
C21_EveryRunEndsWithoutRetry ==
    /\ <>(pc = "exit")
    /\ [](pc = "exit" =>
            \/ Done /\ env.DATABASE_URL /\ seen.schema_ready /\ Len(results) = Len(TaskOrder)
            \/ /\ output = Died /\ seen.invoked = <<>>
               /\ (~env.DATABASE_URL \/ IsNone(flow_alert_knob(env)) \/ ~seen.schema_ready))
    /\ []RequestsOnce

\* DONE after both price requests and the flow page failed once each.
C21_Witness ==
    /\ Done /\ Len(seen.requests) = Len(TaskOrder)
    /\ seen.requests[1] = 2 /\ seen.requests[2] = 1
    /\ results[1] = <<FALSE, << <<"coingecko", "bitcoin", "error">>,
                                <<"coingecko", "ethereum", "error">> >> >>
    /\ etf # None /\ etf[1].rows = <<>>

====
